---- MODULE Spec2Model ----
(***************************************************************************)
(* A model of the evergreen_lint rule "required-expansions-write"          *)
(* (rules/required_expansions_write.py).  One behaviour is one invocation  *)
(* of RequiredExpansionsWrite.__call__(config, yaml) on one parsed         *)
(* document, followed (SpecTwice) by a second invocation on the same       *)
(* document.                                                               *)
(*                                                                         *)
(* The operators of evergreen_lint.helpers (match_*, iterate_command_lists,*)
(* iterate_fn_calls_context) follow the written specification of the rule. *)
(*                                                                         *)
(* Three more parts of evergreen_lint have a specification of their own:   *)
(* the lint command of __main__.py with the read-only document of          *)
(* yamlhandler.py (SpecLint), one call of another rule of RULES            *)
(* (SpecCall), and config.load of config.py (SpecLoad).                    *)
(*                                                                         *)
(* Three parts of the other packages follow: the hook registry and the     *)
(* metrics registration of mongo_tooling_metrics (SpecHooks), the retrying *)
(* call of evergreen/api.py (SpecRetry) and iterate_by_time_window of      *)
(* evergreen/util.py (SpecWindow).                                         *)
(***************************************************************************)
EXTENDS Integers, Sequences, FiniteSets, TLC

VARIABLES
    yaml,                  \* the parsed document handed to the rule
    config,                \* the rule's config mapping
    pc,                    \* position inside __call__
    expansions_write_fns,  \* line 97
    subprocess_exec_fns,   \* line 99
    expansions_update_fns, \* line 101
    timeout_update_fns,    \* line 103
    fn_pos,                \* position of the loop of line 208 in yaml["functions"].items()
    list_pos,              \* position of the loop of line 225 in iterate_command_lists(yaml)
    idx,                   \* loop index of line 148
    first_subprocess,      \* line 144
    first_exp_write,       \* line 146
    warned_subprocess,     \* line 147
    list_out,              \* "out" of _check_command_list, line 143
    call_pos,              \* position of the loop of line 230 in iterate_fn_calls_context(yaml)
    out,                   \* "out" of __call__, line 206
    invocation,            \* 1 for the first call of the rule in the process, 2 for the second
    returned,              \* what the earlier invocations returned, in order
    lpc,                   \* position inside lint (__main__.py)
    ctx_config,            \* ctx.obj["config"], __main__.py line 19/22
    ret,                   \* __main__.py line 32
    configs,               \* __main__.py line 34
    lint_rules,            \* "rules" of __main__.py line 39, its keys in insertion order
    entry_pos,             \* position of the loop of __main__.py line 41
    file_pos,              \* position of the loop of __main__.py line 46
    rule_pos,              \* position of the loop of __main__.py line 49
    yaml_dict,             \* __main__.py line 47
    file_errors,           \* "errors" of __main__.py line 48
    err_counts,            \* the values of err_count (__main__.py line 59), one per linted file
    lint_config,           \* "config" of __main__.py lines 52/54
    last_attempt,          \* the last operation a rule applied to yaml_dict, and its outcome
    exit_code,             \* the exit status of the lint process
    rule_name,             \* the rule of RULES whose __call__ runs
    rconfig,               \* the "config" of that call
    ryaml,                 \* the "yaml" of that call
    rpc,                   \* position inside that call
    item_pos,              \* position of the call's loop over tasks, variants or parameters
    failed_checks,         \* "failed_checks" ("out" in invalid_build_parameter.py)
    variant_mappings,      \* TasksForVariantsConfig._variant_mappings
    unused_variants,       \* TasksForVariantsConfig.unused_variants
    raised,                \* the exception that left the call
    stream,                \* the text config.load reads, as yaml.safe_load sees it
    rawconf,               \* config.py line 60
    cpc,                   \* position inside config.load
    ci,                    \* the index "i" of the loops of config.py lines 29 and 39
    load_error,            \* the exception that left config.load
    registry,              \* _HookRegistry.registry, registry.py line 11
    lock,                  \* the thread that holds _HookRegistry.lock, registry.py line 12
    instances,             \* the hook objects constructed so far, by identity
    hpc,                   \* position of each thread inside register_metrics / register_hook
    harg,                  \* "hook_instance" of each thread's register_hook call
    hret,                  \* what each thread's register_hook call returned
    hkind,                 \* who called register_hook: initialize_hooks or another caller
    hcalls,                \* the register_hook calls that have returned
    sys_exit,              \* the function bound to sys.exit
    atexit_handlers,       \* the number of atexit registrations of _safe_save_metrics
    ncalls,                \* the calls of register_metrics and register_hook started
    skips,                 \* the register_metrics calls that found should_collect_metrics() false
    phase,                 \* "running" until sys.exit is called, then "exiting"
    exited,                \* the call of sys.exit: its status and the functions it ran
    handlers_run,          \* the atexit handlers that have run
    last_save,             \* the last run of _safe_save_metrics and its outcome
    api_method,            \* "method" of the call of RetryingEvergreenApi._call_api
    apc,                   \* position inside the retrying call
    attempt_number,        \* the number of the attempt being made
    outcomes,              \* what each attempt of the call did, in order
    sleeps,                \* the waits between attempts
    api_result,            \* what the retrying call returned or raised
    witems,                \* the time attribute of each item of the iterator, in order
    before,                \* "before" of iterate_by_time_window
    after,                 \* "after" of iterate_by_time_window
    wpos,                  \* position of the loop of util.py line 105
    yielded,               \* the positions of the items yielded, in order
    wpc                    \* position inside iterate_by_time_window

scanVars == <<idx, first_subprocess, first_exp_write, warned_subprocess, list_out>>
classVars == <<expansions_write_fns, subprocess_exec_fns, expansions_update_fns, timeout_update_fns>>
inputVars == <<yaml, config>>
lintVars == <<lpc, ctx_config, ret, configs, lint_rules, entry_pos, file_pos, rule_pos,
              yaml_dict, file_errors, err_counts, lint_config, last_attempt, exit_code>>
callVars == <<rule_name, rconfig, ryaml, rpc, item_pos, failed_checks, variant_mappings,
              unused_variants, raised>>
loadVars == <<stream, rawconf, cpc, ci, load_error>>
hookVars == <<registry, lock, instances, hpc, harg, hret, hkind, hcalls, sys_exit,
              atexit_handlers, ncalls, skips, phase, exited, handlers_run, last_save>>
retryVars == <<api_method, apc, attempt_number, outcomes, sleeps, api_result>>
windowVars == <<witems, before, after, wpos, yielded, wpc>>
toolVars == <<hookVars, retryVars, windowVars>>
otherVars == <<lintVars, callVars, loadVars, toolVars>>
rewVars == <<yaml, config, pc, expansions_write_fns, subprocess_exec_fns,
            expansions_update_fns, timeout_update_fns, fn_pos, list_pos, idx,
            first_subprocess, first_exp_write, warned_subprocess, list_out,
            call_pos, out, invocation, returned>>
nonLintVars == <<rewVars, callVars, loadVars, toolVars>>
nonCallVars == <<rewVars, lintVars, loadVars, toolVars>>
nonLoadVars == <<rewVars, lintVars, callVars, toolVars>>
nonToolVars == <<rewVars, lintVars, callVars, loadVars>>
nonHookVars == <<nonToolVars, retryVars, windowVars>>
nonRetryVars == <<nonToolVars, hookVars, windowVars>>
nonWindowVars == <<nonToolVars, hookVars, retryVars>>
vars == <<yaml, config, pc, expansions_write_fns, subprocess_exec_fns,
          expansions_update_fns, timeout_update_fns, fn_pos, list_pos, idx,
          first_subprocess, first_exp_write, warned_subprocess, list_out,
          call_pos, out, invocation, returned, otherVars>>

(***************************************************************************)
(* Bounds of the model.                                                    *)
(***************************************************************************)
\* the longest task command list of a document
MaxLen == 2

(***************************************************************************)
(* Documents.                                                              *)
(***************************************************************************)
\* a key that the mapping does not have
NoKey == "<no key>"

\* Python's None as the value of an Optional[int]
NoneIdx == -1

FnNames == {"f_a", "f_b"}

\* the order in which yaml["functions"].items() yields the names
FnOrder == <<"f_a", "f_b">>

EvergreenScript == "src/evergreen/run.sh"
OtherScript == "src/tools/run.sh"
Paths == {EvergreenScript, OtherScript}

DefaultRegex == ".*\\/evergreen\\/.*\\.sh"
ToolsRegex == ".*\\/tools\\/.*\\.sh"
Regexes == {DefaultRegex, ToolsRegex}

\* re.match(regex, path) on the patterns and paths of the model
RegexMatches(regex, path) ==
    \/ regex = DefaultRegex /\ path = EvergreenScript
    \/ regex = ToolsRegex /\ path = OtherScript

\* A step of a command list: a mapping with the optional keys "command",
\* "func" and "vars"; script is the path a subprocess.exec step runs, and
\* vars tells whether the "vars" mapping is present and non-empty.
Cmd(c, s, f, v) == [command |-> c, script |-> s, func |-> f, vars |-> v]

ExpansionsWrite == Cmd("expansions.write", NoKey, NoKey, FALSE)
SubprocessExec(path) == Cmd("subprocess.exec", path, NoKey, FALSE)
ExpansionsUpdate == Cmd("expansions.update", NoKey, NoKey, FALSE)
TimeoutUpdate == Cmd("timeout.update", NoKey, NoKey, FALSE)
EmptyStep == Cmd(NoKey, NoKey, NoKey, FALSE)
FuncCall(f, v) == Cmd(NoKey, NoKey, f, v)

DirectSteps ==
    {ExpansionsWrite, ExpansionsUpdate, TimeoutUpdate, EmptyStep}
        \cup {SubprocessExec(p) : p \in Paths}

\* a step that holds a "command" key beside its "func" key
MixedSteps == {Cmd("expansions.update", NoKey, "f_a", FALSE)}

Steps == DirectSteps \cup {FuncCall(f, v) : f \in FnNames, v \in BOOLEAN} \cup MixedSteps

RECURSIVE SeqsUpTo(_, _)
SeqsUpTo(S, n) ==
    IF n = 0 THEN {<<>>}
    ELSE LET shorter == SeqsUpTo(S, n - 1)
         IN  shorter \cup {Append(s, x) : s \in {t \in shorter : Len(t) = n - 1}, x \in S}

CommandListsOfTasks == SeqsUpTo(Steps, MaxLen)

\* A function body: one command (dict form) or a list of commands (list form).
DictBody(c) == [form |-> "dict", commands |-> <<c>>]
ListBody(cs) == [form |-> "list", commands |-> cs]

FnBodies ==
    {DictBody(c) : c \in {ExpansionsWrite, SubprocessExec(EvergreenScript),
                          SubprocessExec(OtherScript), ExpansionsUpdate,
                          TimeoutUpdate, EmptyStep}}
        \cup {ListBody(<<c>>) : c \in {ExpansionsWrite, SubprocessExec(EvergreenScript),
                                       ExpansionsUpdate}}

\* The "functions" key: absent, present with the value null, or a mapping.
FunctionsValues ==
    {[key |-> "absent", items |-> <<>>], [key |-> "null", items |-> <<>>]}
        \cup {[key |-> "mapping", items |-> m] : m \in [FnNames -> FnBodies]}

\* The "tasks" key: absent, or a list with one task and its "commands" list.
TasksValues ==
    {[key |-> "absent", items |-> <<>>]}
        \cup {[key |-> "list", items |-> <<cl>>] : cl \in CommandListsOfTasks}

Documents == [functions : FunctionsValues, tasks : TasksValues]

DefaultConfig == [regex |-> DefaultRegex]
Configs == [regex : Regexes]

(***************************************************************************)
(* evergreen_lint.helpers, after the written specification.                *)
(***************************************************************************)
\* "command identifier expansions.write with any params"
match_expansions_write(command) == command.command = "expansions.write"

\* a subprocess.exec step running a script under an evergreen/ directory;
\* the helper is called with the command alone
match_subprocess_exec(command) ==
    /\ command.command = "subprocess.exec"
    /\ RegexMatches(DefaultRegex, command.script)

match_expansions_update(command) == command.command = "expansions.update"

match_timeout_update(command) == command.command = "timeout.update"

FunctionContext(fname) == "Function " \o fname
TaskContext == "Task t"

RECURSIVE FunctionLists(_, _)
FunctionLists(functions, i) ==
    IF i > Len(FnOrder) THEN <<>>
    ELSE <<[context |-> FunctionContext(FnOrder[i]),
            form |-> functions.items[FnOrder[i]].form,
            commands |-> functions.items[FnOrder[i]].commands]>>
         \o FunctionLists(functions, i + 1)

\* (context, commands) for every function body, dict-form bodies included,
\* then for every task's "commands"
iterate_command_lists(y) ==
    (IF y.functions.key = "mapping" THEN FunctionLists(y.functions, 1) ELSE <<>>)
    \o (IF y.tasks.key = "list"
        THEN [t \in 1..Len(y.tasks.items) |->
                 [context |-> TaskContext, form |-> "list", commands |-> y.tasks.items[t]]]
        ELSE <<>>)

RECURSIVE CallsIn(_, _)
CallsIn(cl, i) ==
    IF i > Len(cl.commands) THEN <<>>
    ELSE (IF cl.commands[i].func # NoKey
          THEN <<[context |-> cl.context, idx |-> i - 1, command |-> cl.commands[i]]>>
          ELSE <<>>)
         \o CallsIn(cl, i + 1)

RECURSIVE CallsOfLists(_, _)
CallsOfLists(lists, i) ==
    IF i > Len(lists) THEN <<>>
    ELSE (IF lists[i].form = "list" THEN CallsIn(lists[i], 1) ELSE <<>>)
         \o CallsOfLists(lists, i + 1)

\* every step with a "func" key of every command list, in document order
iterate_fn_calls_context(y) == CallsOfLists(iterate_command_lists(y), 1)

(***************************************************************************)
(* RequiredExpansionsWrite.__call__                                        *)
(***************************************************************************)
\* The three messages; each names its context, the function called by the
\* step (_context_add_fn) and the functions of expansions_write_fns.
LintError(kind, context, i, func) ==
    [kind |-> kind, context |-> context, idx |-> i, func |-> func,
     write_fns |-> expansions_write_fns]

context_add_fn(command) == command.func

out_message_dangerous_function(call) ==
    LintError("dangerous function", call.context, call.idx, call.command.func)

out_message_expansions_update(context, i, command, fname) ==
    LintError(fname, context, i, context_add_fn(command))

out_message_subprocess(context, i, command) ==
    LintError("subprocess", context, i, context_add_fn(command))

is_expansions_write_or_fn(command) ==
    \/ match_expansions_write(command)
    \/ command.func # NoKey /\ command.func \in expansions_write_fns

\* is_subprocess_exec_or_fn taking every subprocess.exec step, whatever it runs
is_subprocess_exec_or_fn_AnyScript(command) ==
    \/ command.command = "subprocess.exec"
    \/ command.func # NoKey /\ command.func \in subprocess_exec_fns

is_subprocess_exec_or_fn(command) ==
    \/ match_subprocess_exec(command)
    \/ command.func # NoKey /\ command.func \in subprocess_exec_fns

\* is_expansions_update_or_fn without the test of the called function
is_expansions_update_or_fn_DirectOnly(command) == match_expansions_update(command)

is_expansions_update_or_fn(command) ==
    \/ match_expansions_update(command)
    \/ command.func # NoKey /\ command.func \in expansions_update_fns

is_timeout_update_or_fn(command) ==
    \/ match_timeout_update(command)
    \/ command.func # NoKey /\ command.func \in timeout_update_fns

\* the locals of a fresh invocation, lines 97-103
FreshLocals ==
    /\ pc = "classify"
    /\ expansions_write_fns = {}
    /\ subprocess_exec_fns = {}
    /\ expansions_update_fns = {}
    /\ timeout_update_fns = {}
    /\ fn_pos = 1
    /\ list_pos = 1
    /\ idx = 0
    /\ first_subprocess = NoneIdx
    /\ first_exp_write = NoneIdx
    /\ warned_subprocess = FALSE
    /\ list_out = <<>>
    /\ call_pos = 1
    /\ out = <<>>

\* a dict without keys
EmptyDict == [k \in {} |-> ""]

\* no rule has applied an operation to yaml_dict
NoAttempt == [op |-> "none", raised |-> "none"]

\* the lint command has not been started
LintIdle ==
    /\ lpc = "idle"
    /\ ctx_config = [loaded |-> FALSE, files |-> <<>>, rules |-> <<>>]
    /\ ret = NoneIdx
    /\ configs = EmptyDict
    /\ lint_rules = <<>>
    /\ entry_pos = 1
    /\ file_pos = 1
    /\ rule_pos = 1
    /\ yaml_dict = EmptyDict
    /\ file_errors = EmptyDict
    /\ err_counts = <<>>
    /\ lint_config = EmptyDict
    /\ last_attempt = NoAttempt
    /\ exit_code = NoneIdx

\* a key of the document: absent, null, or a list
Absent == [key |-> "absent", items |-> <<>>]
Null == [key |-> "null", items |-> <<>>]
ListOfItems(items) == [key |-> "list", items |-> items]

\* no rule other than required-expansions-write is being called
CallIdle ==
    /\ rule_name = "none"
    /\ rconfig = EmptyDict
    /\ ryaml = [tasks |-> Absent, buildvariants |-> Absent, parameters |-> Absent]
    /\ rpc = "idle"
    /\ item_pos = 1
    /\ failed_checks = <<>>
    /\ variant_mappings = EmptyDict
    /\ unused_variants = {}
    /\ raised = "none"

\* no exception
NoError == [type |-> "none", prefix |-> "none"]

\* a config file that is not a mapping
NoConf == [files |-> Absent, help_url |-> NoKey, rules |-> Absent]

\* config.load is not running
LoadIdle ==
    /\ stream = [kind |-> "list", conf |-> NoConf]
    /\ rawconf = NoConf
    /\ cpc = "idle"
    /\ ci = 0
    /\ load_error = NoError

\* the threads of a process that uses mongo_tooling_metrics
Threads == {"t1", "t2"}

\* no thread
NoThread == "none"

\* the classes of hook a process registers
HookClasses == {"ExitHook", "OtherHook"}

\* the builtin sys.exit, as opposed to a hook object
RealExit == 0

\* no hook object
NoHook == 0

\* sys.exit has not been called
NotExited == [done |-> FALSE, status |-> 0, calls |-> <<>>]

\* _safe_save_metrics has not run
NoSave == [step |-> "none", kind |-> "none", outcome |-> "none", logged |-> FALSE]

\* a process that has imported mongo_tooling_metrics and called nothing of it
HooksIdle ==
    /\ registry = [c \in HookClasses |-> NoHook]
    /\ lock = NoThread
    /\ instances = <<>>
    /\ hpc = [t \in Threads |-> "idle"]
    /\ harg = [t \in Threads |-> NoHook]
    /\ hret = [t \in Threads |-> NoHook]
    /\ hkind = [t \in Threads |-> "none"]
    /\ hcalls = {}
    /\ sys_exit = RealExit
    /\ atexit_handlers = 0
    /\ ncalls = 0
    /\ skips = 0
    /\ phase = "running"
    /\ exited = NotExited
    /\ handlers_run = 0
    /\ last_save = NoSave

\* no call of the evergreen api has been made or has failed
NoResult == [kind |-> "none", value |-> "none"]

\* RetryingEvergreenApi._call_api is not running
RetryIdle ==
    /\ api_method = "GET"
    /\ apc = "idle"
    /\ attempt_number = 0
    /\ outcomes = <<>>
    /\ sleeps = 0
    /\ api_result = NoResult

\* iterate_by_time_window is not running
WindowIdle ==
    /\ witems = <<>>
    /\ before = 0
    /\ after = 0
    /\ wpos = 1
    /\ yielded = <<>>
    /\ wpc = "idle"

\* nothing of mongo_tooling_metrics and of the evergreen client is running
ToolsIdle == HooksIdle /\ RetryIdle /\ WindowIdle

\* the parts of the program other than the rule are not running
OthersIdle == LintIdle /\ CallIdle /\ LoadIdle /\ ToolsIdle

Init ==
    /\ yaml \in Documents
    /\ config \in Configs
    /\ invocation = 1
    /\ returned = <<>>
    /\ FreshLocals
    /\ OthersIdle

\* line 207, "functions" not in yaml
SkipClassification ==
    /\ pc = "classify"
    /\ yaml.functions.key = "absent"
    /\ pc' = "lists"
    /\ UNCHANGED <<otherVars, inputVars, classVars, scanVars, fn_pos, list_pos, call_pos, out,
                   invocation, returned>>

\* line 208 on a "functions" value without items(): AttributeError
FunctionsNotAMapping ==
    /\ pc = "classify"
    /\ yaml.functions.key = "null"
    /\ pc' = "raised"
    /\ UNCHANGED <<otherVars, inputVars, classVars, scanVars, fn_pos, list_pos, call_pos, out,
                   invocation, returned>>

\* Classified with the expansions-update branch adding to both update sets
Classified_UpdateInBoth(fname, body) ==
    IF body.form # "dict"
    THEN <<expansions_write_fns, subprocess_exec_fns, expansions_update_fns, timeout_update_fns>>
    ELSE LET b == body.commands[1] IN
         IF match_expansions_write(b)
         THEN <<expansions_write_fns \cup {fname}, subprocess_exec_fns,
                expansions_update_fns, timeout_update_fns>>
         ELSE IF match_subprocess_exec(b)
         THEN <<expansions_write_fns, subprocess_exec_fns \cup {fname},
                expansions_update_fns, timeout_update_fns>>
         ELSE IF match_expansions_update(b)
         THEN <<expansions_write_fns, subprocess_exec_fns,
                expansions_update_fns \cup {fname}, timeout_update_fns \cup {fname}>>
         ELSE IF match_timeout_update(b)
         THEN <<expansions_write_fns, subprocess_exec_fns,
                expansions_update_fns, timeout_update_fns \cup {fname}>>
         ELSE <<expansions_write_fns, subprocess_exec_fns, expansions_update_fns,
                timeout_update_fns>>

\* Classified without the isinstance test of line 209: a list-form body is
\* classified by its first command
Classified_AnyForm(fname, body) ==
    LET b == body.commands[1] IN
    IF match_expansions_write(b)
    THEN <<expansions_write_fns \cup {fname}, subprocess_exec_fns,
           expansions_update_fns, timeout_update_fns>>
    ELSE IF match_subprocess_exec(b)
    THEN <<expansions_write_fns, subprocess_exec_fns \cup {fname},
           expansions_update_fns, timeout_update_fns>>
    ELSE IF match_expansions_update(b)
    THEN <<expansions_write_fns, subprocess_exec_fns,
           expansions_update_fns \cup {fname}, timeout_update_fns>>
    ELSE IF match_timeout_update(b)
    THEN <<expansions_write_fns, subprocess_exec_fns,
           expansions_update_fns, timeout_update_fns \cup {fname}>>
    ELSE <<expansions_write_fns, subprocess_exec_fns, expansions_update_fns,
           timeout_update_fns>>

\* the sets after the if/elif chain of lines 209-223 for one function
Classified(fname, body) ==
    IF body.form # "dict"
    THEN <<expansions_write_fns, subprocess_exec_fns, expansions_update_fns, timeout_update_fns>>
    ELSE LET b == body.commands[1] IN
         IF match_expansions_write(b)
         THEN <<expansions_write_fns \cup {fname}, subprocess_exec_fns,
                expansions_update_fns, timeout_update_fns>>
         ELSE IF match_subprocess_exec(b)
         THEN <<expansions_write_fns, subprocess_exec_fns \cup {fname},
                expansions_update_fns, timeout_update_fns>>
         ELSE IF match_expansions_update(b)
         THEN <<expansions_write_fns, subprocess_exec_fns,
                expansions_update_fns \cup {fname}, timeout_update_fns>>
         ELSE IF match_timeout_update(b)
         THEN <<expansions_write_fns, subprocess_exec_fns,
                expansions_update_fns, timeout_update_fns \cup {fname}>>
         ELSE <<expansions_write_fns, subprocess_exec_fns, expansions_update_fns,
                timeout_update_fns>>

\* one iteration of the loop of line 208
ClassifyFunction ==
    /\ pc = "classify"
    /\ yaml.functions.key = "mapping"
    /\ fn_pos <= Len(FnOrder)
    /\ LET fname == FnOrder[fn_pos]
           sets == Classified(fname, yaml.functions.items[fname])
       IN  /\ expansions_write_fns' = sets[1]
           /\ subprocess_exec_fns' = sets[2]
           /\ expansions_update_fns' = sets[3]
           /\ timeout_update_fns' = sets[4]
    /\ fn_pos' = fn_pos + 1
    /\ UNCHANGED <<otherVars, inputVars, pc, scanVars, list_pos, call_pos, out, invocation, returned>>

\* the loop of line 208 is exhausted
ClassificationDone ==
    /\ pc = "classify"
    /\ yaml.functions.key = "mapping"
    /\ fn_pos > Len(FnOrder)
    /\ pc' = "lists"
    /\ UNCHANGED <<otherVars, inputVars, classVars, scanVars, fn_pos, list_pos, call_pos, out,
                   invocation, returned>>

\* the command list the loop of line 225 is at
CurrentList == iterate_command_lists(yaml)[list_pos]

\* SkipDictCommands taking the dict for a list of one step, and reporting it
\* as _check_command_list would
SkipDictCommands_Scans ==
    /\ pc = "lists"
    /\ list_pos <= Len(iterate_command_lists(yaml))
    /\ CurrentList.form = "dict"
    /\ LET command == CurrentList.commands[1]
       IN out' = out
                  \o (IF is_subprocess_exec_or_fn(command)
                      THEN <<LintError("subprocess", CurrentList.context, 0, command.func)>>
                      ELSE <<>>)
                  \o (IF is_expansions_update_or_fn(command)
                      THEN <<LintError("expansions.update", CurrentList.context, 0,
                                       command.func)>>
                      ELSE <<>>)
    /\ list_pos' = list_pos + 1
    /\ UNCHANGED <<otherVars, inputVars, pc, classVars, scanVars, fn_pos, call_pos,
                   invocation, returned>>

\* lines 226-227: a dict (the body of a dict-form function) is not scanned
SkipDictCommands ==
    /\ pc = "lists"
    /\ list_pos <= Len(iterate_command_lists(yaml))
    /\ CurrentList.form = "dict"
    /\ list_pos' = list_pos + 1
    /\ UNCHANGED <<otherVars, inputVars, pc, classVars, scanVars, fn_pos, call_pos, out,
                   invocation, returned>>

\* BeginCheckCommandList with warned_subprocess kept from the list before
BeginCheckCommandList_KeepsWarned ==
    /\ pc = "lists"
    /\ list_pos <= Len(iterate_command_lists(yaml))
    /\ CurrentList.form = "list"
    /\ pc' = "scan"
    /\ idx' = 0
    /\ first_subprocess' = NoneIdx
    /\ first_exp_write' = NoneIdx
    /\ warned_subprocess' = warned_subprocess
    /\ list_out' = <<>>
    /\ UNCHANGED <<otherVars, inputVars, classVars, fn_pos, list_pos, call_pos, out,
                   invocation, returned>>

\* line 228 calls _check_command_list: lines 143-147
BeginCheckCommandList ==
    /\ pc = "lists"
    /\ list_pos <= Len(iterate_command_lists(yaml))
    /\ CurrentList.form = "list"
    /\ pc' = "scan"
    /\ idx' = 0
    /\ first_subprocess' = NoneIdx
    /\ first_exp_write' = NoneIdx
    /\ warned_subprocess' = FALSE
    /\ list_out' = <<>>
    /\ UNCHANGED <<otherVars, inputVars, classVars, fn_pos, list_pos, call_pos, out,
                   invocation, returned>>

\* lines 149-154
FirstSubprocessAfter(command, i) ==
    IF first_subprocess = NoneIdx /\ is_subprocess_exec_or_fn(command)
    THEN i ELSE first_subprocess

FirstExpWriteAfter(command, i) ==
    IF first_subprocess = NoneIdx /\ is_subprocess_exec_or_fn(command)
    THEN first_exp_write
    ELSE IF first_exp_write = NoneIdx /\ is_expansions_write_or_fn(command)
    THEN i ELSE first_exp_write

\* WarnsSubprocess without the test of first_exp_write
WarnsSubprocess_IgnoresWrite(command, i) ==
    /\ ~warned_subprocess
    /\ is_subprocess_exec_or_fn(command)

\* WarnsSubprocess without the test of warned_subprocess
WarnsSubprocess_EveryTime(command, i) ==
    /\ is_subprocess_exec_or_fn(command)
    /\ FirstExpWriteAfter(command, i) = NoneIdx

\* the condition of lines 156-160, evaluated after lines 149-154
WarnsSubprocess(command, i) ==
    /\ ~warned_subprocess
    /\ is_subprocess_exec_or_fn(command)
    /\ FirstExpWriteAfter(command, i) = NoneIdx

\* UpdateErrors without the test of the list's length: an update step at the
\* end of the list is let through
UpdateErrors_SkipsLast(context, commands, i) ==
    LET command == commands[i + 1] IN
    IF is_expansions_update_or_fn(command) \/ is_timeout_update_or_fn(command)
    THEN IF Len(commands) > i + 1 /\ ~is_expansions_write_or_fn(commands[i + 2])
         THEN IF is_expansions_update_or_fn(command)
              THEN <<out_message_expansions_update(context, i, command, "expansions.update")>>
              ELSE <<out_message_expansions_update(context, i, command, "timeout.update")>>
         ELSE <<>>
    ELSE <<>>

\* lines 171-188: the violations of Resolutions 3 and 8 for the step at i
UpdateErrors(context, commands, i) ==
    LET command == commands[i + 1] IN
    IF is_expansions_update_or_fn(command) \/ is_timeout_update_or_fn(command)
    THEN IF Len(commands) <= i + 1 \/ ~is_expansions_write_or_fn(commands[i + 2])
         THEN IF is_expansions_update_or_fn(command)
              THEN <<out_message_expansions_update(context, i, command, "expansions.update")>>
              ELSE IF is_timeout_update_or_fn(command)
              THEN <<out_message_expansions_update(context, i, command, "timeout.update")>>
              ELSE <<>>
         ELSE <<>>
    ELSE <<>>

\* ScanCommand with the test of lines 171-188 placed before that of lines 156-169
ScanCommand_UpdateFirst ==
    /\ pc = "scan"
    /\ idx < Len(CurrentList.commands)
    /\ LET context == CurrentList.context
           commands == CurrentList.commands
           command == commands[idx + 1]
           warns == WarnsSubprocess(command, idx)
       IN  /\ first_subprocess' = FirstSubprocessAfter(command, idx)
           /\ first_exp_write' = FirstExpWriteAfter(command, idx)
           /\ warned_subprocess' = (warned_subprocess \/ warns)
           /\ list_out' = list_out
                            \o UpdateErrors(context, commands, idx)
                            \o (IF warns
                                THEN <<out_message_subprocess(context, idx, command)>>
                                ELSE <<>>)
    /\ idx' = idx + 1
    /\ UNCHANGED <<otherVars, inputVars, pc, classVars, fn_pos, list_pos, call_pos, out,
                   invocation, returned>>

\* ScanCommand without the assignment of line 169
ScanCommand_ForgetsWarned ==
    /\ pc = "scan"
    /\ idx < Len(CurrentList.commands)
    /\ LET context == CurrentList.context
           commands == CurrentList.commands
           command == commands[idx + 1]
           warns == WarnsSubprocess(command, idx)
       IN  /\ first_subprocess' = FirstSubprocessAfter(command, idx)
           /\ first_exp_write' = FirstExpWriteAfter(command, idx)
           /\ warned_subprocess' = warned_subprocess
           /\ list_out' = list_out
                            \o (IF warns
                                THEN <<out_message_subprocess(context, idx, command)>>
                                ELSE <<>>)
                            \o UpdateErrors(context, commands, idx)
    /\ idx' = idx + 1
    /\ UNCHANGED <<otherVars, inputVars, pc, classVars, fn_pos, list_pos, call_pos, out,
                   invocation, returned>>

\* one iteration of the loop of line 148
ScanCommand ==
    /\ pc = "scan"
    /\ idx < Len(CurrentList.commands)
    /\ LET context == CurrentList.context
           commands == CurrentList.commands
           command == commands[idx + 1]
           warns == WarnsSubprocess(command, idx)
       IN  /\ first_subprocess' = FirstSubprocessAfter(command, idx)
           /\ first_exp_write' = FirstExpWriteAfter(command, idx)
           /\ warned_subprocess' = (warned_subprocess \/ warns)
           /\ list_out' = list_out
                            \o (IF warns
                                THEN <<out_message_subprocess(context, idx, command)>>
                                ELSE <<>>)
                            \o UpdateErrors(context, commands, idx)
    /\ idx' = idx + 1
    /\ UNCHANGED <<otherVars, inputVars, pc, classVars, fn_pos, list_pos, call_pos, out,
                   invocation, returned>>

\* the condition of lines 190-195
FallbackApplies ==
    /\ ~warned_subprocess
    /\ first_subprocess # NoneIdx
    /\ first_exp_write # NoneIdx
    /\ first_subprocess < first_exp_write

\* lines 190-204, and "out +=" of line 228
EndCheckCommandList ==
    /\ pc = "scan"
    /\ idx = Len(CurrentList.commands)
    /\ LET result ==
               list_out
                 \o (IF FallbackApplies
                     THEN <<out_message_subprocess(CurrentList.context, first_subprocess,
                                CurrentList.commands[first_subprocess + 1])>>
                     ELSE <<>>)
       IN  /\ list_out' = result
           /\ out' = out \o result
    /\ pc' = "lists"
    /\ list_pos' = list_pos + 1
    /\ UNCHANGED <<otherVars, inputVars, classVars, fn_pos, idx, first_subprocess, first_exp_write,
                   warned_subprocess, call_pos, invocation, returned>>

\* the loop of line 225 is exhausted
CommandListsDone ==
    /\ pc = "lists"
    /\ list_pos > Len(iterate_command_lists(yaml))
    /\ pc' = "calls"
    /\ UNCHANGED <<otherVars, inputVars, classVars, scanVars, fn_pos, list_pos, call_pos, out,
                   invocation, returned>>

\* IsDangerousCall without the test of "vars"
IsDangerousCall_IgnoresVars(command) == command.func \in subprocess_exec_fns

\* the condition of line 231
IsDangerousCall(command) ==
    /\ command.func \in subprocess_exec_fns
    /\ command.vars

\* CheckFnCall putting its violation in front of the ones found so far
CheckFnCall_Prepends ==
    /\ pc = "calls"
    /\ call_pos <= Len(iterate_fn_calls_context(yaml))
    /\ LET call == iterate_fn_calls_context(yaml)[call_pos]
       IN  out' = IF IsDangerousCall(call.command)
                  THEN <<out_message_dangerous_function(call)>> \o out
                  ELSE out
    /\ call_pos' = call_pos + 1
    /\ UNCHANGED <<otherVars, inputVars, pc, classVars, scanVars, fn_pos, list_pos, invocation, returned>>

\* one iteration of the loop of line 230
CheckFnCall ==
    /\ pc = "calls"
    /\ call_pos <= Len(iterate_fn_calls_context(yaml))
    /\ LET call == iterate_fn_calls_context(yaml)[call_pos]
       IN  out' = IF IsDangerousCall(call.command)
                  THEN Append(out, out_message_dangerous_function(call))
                  ELSE out
    /\ call_pos' = call_pos + 1
    /\ UNCHANGED <<otherVars, inputVars, pc, classVars, scanVars, fn_pos, list_pos, invocation, returned>>

\* Return after writing the rule's defaults into the config it was given
Return_WritesDefaults ==
    /\ pc = "calls"
    /\ call_pos > Len(iterate_fn_calls_context(yaml))
    /\ pc' = "done"
    /\ returned' = Append(returned, out)
    /\ config' = DefaultConfig
    /\ UNCHANGED <<otherVars, yaml, classVars, scanVars, fn_pos, list_pos, call_pos, out, invocation>>

\* line 234
Return ==
    /\ pc = "calls"
    /\ call_pos > Len(iterate_fn_calls_context(yaml))
    /\ pc' = "done"
    /\ returned' = Append(returned, out)
    /\ UNCHANGED <<otherVars, inputVars, classVars, scanVars, fn_pos, list_pos, call_pos, out, invocation>>

\* CallAgain with "out" kept from the first invocation
CallAgain_KeepsOut ==
    /\ pc = "done"
    /\ invocation = 1
    /\ invocation' = 2
    /\ pc' = "classify"
    /\ expansions_write_fns' = {}
    /\ subprocess_exec_fns' = {}
    /\ expansions_update_fns' = {}
    /\ timeout_update_fns' = {}
    /\ fn_pos' = 1
    /\ list_pos' = 1
    /\ idx' = 0
    /\ first_subprocess' = NoneIdx
    /\ first_exp_write' = NoneIdx
    /\ warned_subprocess' = FALSE
    /\ list_out' = <<>>
    /\ call_pos' = 1
    /\ out' = out
    /\ UNCHANGED <<otherVars, inputVars, returned>>

\* the rule is called again on the same document with the same config
CallAgain ==
    /\ pc = "done"
    /\ invocation = 1
    /\ invocation' = 2
    /\ pc' = "classify"
    /\ expansions_write_fns' = {}
    /\ subprocess_exec_fns' = {}
    /\ expansions_update_fns' = {}
    /\ timeout_update_fns' = {}
    /\ fn_pos' = 1
    /\ list_pos' = 1
    /\ idx' = 0
    /\ first_subprocess' = NoneIdx
    /\ first_exp_write' = NoneIdx
    /\ warned_subprocess' = FALSE
    /\ list_out' = <<>>
    /\ call_pos' = 1
    /\ out' = <<>>
    /\ UNCHANGED <<otherVars, inputVars, returned>>

Next ==
    \/ SkipClassification
    \/ FunctionsNotAMapping
    \/ ClassifyFunction
    \/ ClassificationDone
    \/ SkipDictCommands
    \/ BeginCheckCommandList
    \/ ScanCommand
    \/ EndCheckCommandList
    \/ CommandListsDone
    \/ CheckFnCall
    \/ Return

Spec == Init /\ [][Next]_vars

NextTwice == Next \/ CallAgain

SpecTwice == Init /\ [][NextTwice]_vars

(***************************************************************************)
(* Properties.                                                             *)
(***************************************************************************)
\* The kinds of step, as the rule's documentation states them: a direct
\* command of the kind, or a call of a function of the kind's set.
WriteStep(c) == c.command = "expansions.write" \/ c.func \in expansions_write_fns
ExecStep(c) ==
    \/ c.command = "subprocess.exec" /\ c.script = EvergreenScript
    \/ c.func \in subprocess_exec_fns
UpdateStep(c) ==
    \/ c.command = "expansions.update" \/ c.func \in expansions_update_fns
    \/ c.command = "timeout.update" \/ c.func \in timeout_update_fns

\* _check_command_list has just returned list_out for the list Checked
ScanFinished ==
    /\ pc = "lists"
    /\ list_pos > 1
    /\ iterate_command_lists(yaml)[list_pos - 1].form = "list"
Checked == iterate_command_lists(yaml)[list_pos - 1].commands

\* the positions of the errors of a list of errors that satisfy a condition
MissingWrites(errors) == {k \in 1..Len(errors) : errors[k].kind = "subprocess"}
UpdateViolations(errors, i) ==
    {k \in 1..Len(errors) :
        errors[k].kind \in {"expansions.update", "timeout.update"} /\ errors[k].idx = i}
Dangerous(errors, call) ==
    {k \in 1..Len(errors) :
        /\ errors[k].kind = "dangerous function"
        /\ errors[k].context = call.context
        /\ errors[k].idx = call.idx}

\* a script-execution step of cl with no expansions-write step before it
ExecBeforeWrite(cl) ==
    \E i \in 1..Len(cl) : ExecStep(cl[i]) /\ \A j \in 1..(i - 1) : ~WriteStep(cl[j])

\* C1: a scanned command list gets a "without a preceding expansions.write"
\* violation if and only if it holds a script-execution step with no
\* expansions-write step at an earlier index.
C1_MissingWriteIff ==
    ScanFinished => ((MissingWrites(list_out) # {}) <=> ExecBeforeWrite(Checked))

\* a list with a write after its first execution step, reported
C1_Witness ==
    /\ ScanFinished
    /\ MissingWrites(list_out) # {}
    /\ \E j \in 1..Len(Checked) : WriteStep(Checked[j])

\* the update step at index i (from 0) of cl is not followed by a write
Unfollowed(cl, i) ==
    /\ UpdateStep(cl[i + 1])
    /\ (i + 1 = Len(cl) \/ ~WriteStep(cl[i + 2]))

\* C2: every update step that is last or not followed by an expansions-write
\* step gets exactly one violation tagged with its index, and no other index
\* gets one.
C2_UpdateViolations ==
    ScanFinished =>
        \A i \in 0..(Len(Checked) - 1) :
            Cardinality(UpdateViolations(list_out, i)) = IF Unfollowed(Checked, i) THEN 1 ELSE 0

\* two update steps in a row, the second one last: both are reported
C2_Witness ==
    /\ ScanFinished
    /\ Len(Checked) = 2
    /\ UpdateStep(Checked[1])
    /\ UpdateStep(Checked[2])
    /\ Len(list_out) = 2

\* C3: at the return, every call site into subprocess_exec_fns with non-empty
\* vars has exactly one "cannot safely take arguments" violation, every other
\* call site has none.
C3_DangerousCalls ==
    pc = "done" =>
        \A n \in 1..Len(iterate_fn_calls_context(yaml)) :
            LET call == iterate_fn_calls_context(yaml)[n] IN
            Cardinality(Dangerous(out, call)) =
                IF call.command.func \in subprocess_exec_fns /\ call.command.vars THEN 1 ELSE 0

\* a call that is reported both for its arguments and for the missing write
C3_Witness ==
    /\ pc = "done"
    /\ \E k \in 1..Len(out), m \in 1..Len(out) :
          /\ out[k].kind = "subprocess"
          /\ out[m].kind = "dangerous function"
          /\ out[k].context = out[m].context
          /\ out[k].idx = out[m].idx

\* the index (from 0) of the first script-execution step of cl
FirstExec(cl) ==
    CHOOSE i \in 0..(Len(cl) - 1) :
        ExecStep(cl[i + 1]) /\ \A j \in 1..i : ~ExecStep(cl[j])

\* C4: a command list gets the missing-write violation at most once, tagged
\* with the index of the first script-execution step of the list.
C4_AtMostOnce ==
    ScanFinished =>
        /\ Cardinality(MissingWrites(list_out)) <= 1
        /\ \A k \in MissingWrites(list_out) : list_out[k].idx = FirstExec(Checked)

\* two execution steps without a write, one violation
C4_Witness ==
    /\ ScanFinished
    /\ Len(Checked) = 2
    /\ ExecStep(Checked[1])
    /\ ExecStep(Checked[2])
    /\ Cardinality(MissingWrites(list_out)) = 1

\* the functions of the document whose body is of the given form
FunctionsOfForm(form) ==
    IF yaml.functions.key = "mapping"
    THEN {f \in FnNames : yaml.functions.items[f].form = form}
    ELSE {}

\* the command of a dict-form function
BodyCommand(f) == yaml.functions.items[f].commands[1].command

Classes ==
    <<expansions_write_fns, subprocess_exec_fns, expansions_update_fns, timeout_update_fns>>

\* the loop over yaml["functions"] has ended
Classification_Over == pc \in {"lists", "scan", "calls", "done"}

\* the body of a dict-form function
Body(f) == yaml.functions.items[f].commands[1]

\* C5: the four classification sets are pairwise disjoint at every point of an
\* invocation, and after classification a dict-form function is in the set of
\* the first predicate its body matches, in the order write, exec,
\* expansions-update, timeout-update, and in no other.
C5_Disjoint ==
    /\ \A a \in 1..4, b \in 1..4 : a # b => Classes[a] \cap Classes[b] = {}
    /\ Classification_Over =>
          \A f \in FunctionsOfForm("dict") :
              /\ f \in expansions_write_fns <=> match_expansions_write(Body(f))
              /\ f \in subprocess_exec_fns <=>
                    /\ ~match_expansions_write(Body(f))
                    /\ match_subprocess_exec(Body(f))
              /\ f \in expansions_update_fns <=>
                    /\ ~match_expansions_write(Body(f))
                    /\ ~match_subprocess_exec(Body(f))
                    /\ match_expansions_update(Body(f))
              /\ f \in timeout_update_fns <=>
                    /\ ~match_expansions_write(Body(f))
                    /\ ~match_subprocess_exec(Body(f))
                    /\ ~match_expansions_update(Body(f))
                    /\ match_timeout_update(Body(f))

\* classification has put two functions into two different sets
C5_Witness ==
    /\ Classification_Over
    /\ \E a \in 1..4, b \in 1..4 : a # b /\ Classes[a] # {} /\ Classes[b] # {}

\* C6: after classification a list-form function is in none of the four sets,
\* a dict-form function whose body is expansions.write is in
\* expansions_write_fns, and a dict-form function whose body matches no
\* predicate is in no set.
C6_OnlyDictForm ==
    Classification_Over =>
        /\ \A f \in FunctionsOfForm("list") : \A a \in 1..4 : f \notin Classes[a]
        /\ \A f \in FunctionsOfForm("dict") :
              /\ BodyCommand(f) = "expansions.write" => f \in expansions_write_fns
              /\ (/\ ~match_expansions_write(Body(f))
                  /\ ~match_subprocess_exec(Body(f))
                  /\ ~match_expansions_update(Body(f))
                  /\ ~match_timeout_update(Body(f)))
                    => \A a \in 1..4 : f \notin Classes[a]

\* a list-form function holding an expansions.write step, unclassified,
\* beside a dict-form function that is one, classified
C6_Witness ==
    /\ Classification_Over
    /\ \E f \in FunctionsOfForm("list") :
          /\ yaml.functions.items[f].commands[1].command = "expansions.write"
          /\ f \notin expansions_write_fns
    /\ \E f \in FunctionsOfForm("dict") :
          BodyCommand(f) = "expansions.write" /\ f \in expansions_write_fns

\* C7: the rule never raises, whatever the document.
C7_NeverRaises == pc # "raised"

\* C8: a direct subprocess.exec step the scan records as the first
\* script-execution step of its list runs a script that matches the regex of
\* the config the rule was called with.
C8_ConfiguredRegexDecides ==
    (pc = "scan" /\ first_subprocess # NoneIdx) =>
        LET c == CurrentList.commands[first_subprocess + 1] IN
        c.command = "subprocess.exec" => RegexMatches(config.regex, c.script)

\* C9: a command list with no script-execution step and no expansions-write
\* step gets no violation.
C9_NoExecNoWrite ==
    ScanFinished =>
        ((\A i \in 1..Len(Checked) : ~ExecStep(Checked[i]) /\ ~WriteStep(Checked[i]))
            => list_out = <<>>)

\* C9 as amended: a command list with no script-execution step, no
\* expansions-write step and no expansions-update or timeout-update step gets
\* no violation.
C9_NoExecNoWriteNoUpdate ==
    ScanFinished =>
        ((\A i \in 1..Len(Checked) :
              ~ExecStep(Checked[i]) /\ ~WriteStep(Checked[i]) /\ ~UpdateStep(Checked[i]))
            => list_out = <<>>)

\* a list of two such steps, scanned, without violation
C9_Witness ==
    /\ ScanFinished
    /\ Len(Checked) = 2
    /\ \A i \in 1..2 : ~ExecStep(Checked[i]) /\ ~WriteStep(Checked[i]) /\ ~UpdateStep(Checked[i])
    /\ Checked[1].func # NoKey
    /\ Checked[2].command = "subprocess.exec"
    /\ list_out = <<>>

UpdateKinds == {"expansions.update", "timeout.update"}

\* errors are in the order of the scan: by index, and for one index the
\* missing-write violation before the update violation
InScanOrder(errors) ==
    \A k \in 1..Len(errors), m \in 1..Len(errors) :
        k < m =>
            \/ errors[k].idx < errors[m].idx
            \/ /\ errors[k].idx = errors[m].idx
               /\ errors[k].kind = "subprocess"
               /\ errors[m].kind \in UpdateKinds

IsPrefix(s, t) == Len(s) <= Len(t) /\ \A k \in 1..Len(s) : t[k] = s[k]

\* C11: the violations of one command list are kept in the order of the
\* left-to-right scan (non-decreasing index, the missing-write violation of a
\* step before its update violation), and every step of the scan, the one after
\* the loop included, only appends to them.
C11_ScanOrder ==
    /\ [](pc \in {"scan", "lists"} => InScanOrder(list_out))
    /\ [][pc = "scan" => IsPrefix(list_out, list_out')]_vars

\* one step reported twice, for the missing write and then for the update
C11_Witness ==
    /\ ScanFinished
    /\ Len(list_out) = 2
    /\ list_out[1].idx = list_out[2].idx
    /\ list_out[1].kind = "subprocess"
    /\ list_out[2].kind = "expansions.update"

\* the position in iterate_command_lists(yaml) of the list with a context
ListOf(context) ==
    CHOOSE i \in 1..Len(iterate_command_lists(yaml)) :
        iterate_command_lists(yaml)[i].context = context

\* C12: in "out" every command-list violation precedes every call-site
\* violation and the command-list violations follow the order of the lists;
\* no list is scanned before classification has ended, and no call site is
\* checked before every list has been scanned.
C12_PhaseOrder ==
    /\ \A k \in 1..Len(out), m \in 1..Len(out) :
          k < m =>
              /\ out[k].kind = "dangerous function" => out[m].kind = "dangerous function"
              /\ out[m].kind # "dangerous function" =>
                    ListOf(out[k].context) <= ListOf(out[m].context)
    /\ pc \in {"lists", "scan"} =>
          /\ yaml.functions.key = "mapping" => fn_pos > Len(FnOrder)
          /\ call_pos = 1
    /\ pc \in {"calls", "done"} => list_pos > Len(iterate_command_lists(yaml))

\* violations of two command lists and of a call site, returned together
C12_Witness ==
    /\ pc = "done"
    /\ \E k \in 1..Len(out), m \in 1..Len(out), n \in 1..Len(out) :
          /\ out[k].kind # "dangerous function"
          /\ out[m].kind # "dangerous function"
          /\ out[k].context # out[m].context
          /\ out[n].kind = "dangerous function"

\* The violations of a command list as a function of its context, its steps
\* and the classification sets alone: for every index in turn, the
\* missing-write violation if the step is the first script-execution step and
\* no write step precedes it, then the update violation if the step is an
\* update step that no write step follows.
RECURSIVE ViolationsFrom(_, _, _)
ViolationsFrom(context, cl, i) ==
    IF i >= Len(cl) THEN <<>>
    ELSE LET c == cl[i + 1]
             missing ==
                 /\ ExecStep(c)
                 /\ \A j \in 1..i : ~ExecStep(cl[j]) /\ ~WriteStep(cl[j])
             kind ==
                 IF c.command = "expansions.update" \/ c.func \in expansions_update_fns
                 THEN "expansions.update" ELSE "timeout.update"
         IN  (IF missing
              THEN <<[kind |-> "subprocess", context |-> context, idx |-> i,
                      func |-> c.func, write_fns |-> expansions_write_fns]>>
              ELSE <<>>)
             \o (IF Unfollowed(cl, i)
                 THEN <<[kind |-> kind, context |-> context, idx |-> i,
                         func |-> c.func, write_fns |-> expansions_write_fns]>>
                 ELSE <<>>)
             \o ViolationsFrom(context, cl, i + 1)

\* C13: what _check_command_list returns for a list is determined by the
\* list's context, its steps and the classification sets, whatever the lists
\* scanned before it were.
C13_ListLocal ==
    ScanFinished =>
        list_out = ViolationsFrom(iterate_command_lists(yaml)[list_pos - 1].context, Checked, 0)

\* a second list reported for a missing write after a first one was
C13_Witness ==
    /\ ScanFinished
    /\ MissingWrites(list_out) # {}
    /\ \E k \in MissingWrites(out) :
          out[k].context # iterate_command_lists(yaml)[list_pos - 1].context

\* what the scan asks of a step
Treatment(c) ==
    <<is_expansions_write_or_fn(c), is_subprocess_exec_or_fn(c),
      is_expansions_update_or_fn(c), is_timeout_update_or_fn(c)>>

\* the classification set that stands for a direct step
SetFor(d) ==
    IF match_expansions_write(d) THEN expansions_write_fns
    ELSE IF match_subprocess_exec(d) THEN subprocess_exec_fns
    ELSE IF match_expansions_update(d) THEN expansions_update_fns
    ELSE IF match_timeout_update(d) THEN timeout_update_fns
    ELSE {}

\* the list calls is the list direct with some of its steps replaced by calls
\* of functions of the steps' sets
CallsFor(direct, calls) ==
    /\ Len(direct) = Len(calls)
    /\ \A n \in 1..Len(direct) :
          /\ direct[n].func = NoKey
          /\ \/ calls[n] = direct[n]
             \/ calls[n].command = NoKey /\ calls[n].func \in SetFor(direct[n])
    /\ \E n \in 1..Len(direct) : calls[n] # direct[n]

\* the kinds and indexes of the command-list violations returned for a context
ViolationsAt(context) ==
    {<<out[k].kind, out[k].idx>> :
        k \in {n \in 1..Len(out) :
                  out[n].context = context /\ out[n].kind # "dangerous function"}}

ScannedLists ==
    {i \in 1..Len(iterate_command_lists(yaml)) : iterate_command_lists(yaml)[i].form = "list"}

C15_InputsUnchanged == [][yaml' = yaml /\ config' = config]_vars

\* an invocation with a config other than the default has returned errors
C15_Witness ==
    /\ pc = "done"
    /\ out # <<>>
    /\ config # DefaultConfig
    /\ yaml.functions.key = "mapping"

\* C28: at the end of the scan of a list, if a first script-execution index
\* and a first expansions-write index are both recorded and the execution
\* index is the smaller, warned_subprocess is true; and the end of the scan
\* adds no violation to those the loop has found.
C28_FallbackNeverEmits ==
    /\ [](pc = "scan" /\ idx = Len(CurrentList.commands) =>
            (first_subprocess # NoneIdx /\ first_exp_write # NoneIdx
                /\ first_subprocess < first_exp_write => warned_subprocess))
    /\ [][pc = "scan" /\ pc' = "lists" => list_out' = list_out]_vars

\* the scan of a list ends with the first script-execution step recorded
\* before the first expansions-write step
C28_Witness ==
    /\ pc = "scan"
    /\ idx = Len(CurrentList.commands)
    /\ first_subprocess # NoneIdx
    /\ first_exp_write # NoneIdx
    /\ first_subprocess < first_exp_write

\* the command-list violations of "out" that name a context
ListViolationsOf(context) ==
    {k \in 1..Len(out) : out[k].kind # "dangerous function" /\ out[k].context = context}

\* C29: a dict-form function body is not scanned: the loop over the command
\* lists passes it without changing "out", and no command-list violation
\* names the context of a dict-form function, whatever its body.
C29_DictBodySkipped ==
    /\ [](\A f \in FunctionsOfForm("dict") : ListViolationsOf(FunctionContext(f)) = {})
    /\ [][(pc = "lists" /\ list_pos <= Len(iterate_command_lists(yaml))
            /\ CurrentList.form = "dict")
          => (out' = out /\ list_pos' = list_pos + 1 /\ pc' = "lists")]_vars

\* the rule has returned for a document with a dict-form function whose body
\* runs a script and another whose body is expansions.update
C29_Witness ==
    /\ pc = "done"
    /\ \E f \in FunctionsOfForm("dict") : match_subprocess_exec(Body(f))
    /\ \E f \in FunctionsOfForm("dict") : match_expansions_update(Body(f))

(***************************************************************************)
(* The lint command (__main__.py) and the document it hands to the rules   *)
(* (yamlhandler.py).                                                       *)
(***************************************************************************)
\* the longest list of rule entries of a config file
MaxRules == 2

\* the longest list of files of a config file
MaxFiles == 2

\* dict(a) with the key removed
Without(d, k) == [x \in DOMAIN d \ {k} |-> d[x]]

\* {**a, **b}
Merge(a, b) == [x \in DOMAIN a \cup DOMAIN b |-> IF x \in DOMAIN b THEN b[x] ELSE a[x]]

\* the rules of RULES that the model covers
InvalidBuildParameter == "invalid-build-parameter"
RequiredExpansionsWrite == "required-expansions-write"
RuleNames == {InvalidBuildParameter, RequiredExpansionsWrite}

\* two more rules of RULES, which the lint command of the model does not run
DependencyForFunc == "dependency-for-func"
TasksForVariants == "tasks-for-variants"

\* rulecls().defaults()
DefaultsOf(rulename) ==
    IF rulename = InvalidBuildParameter
    THEN ("regex" :> "[a-z][a-z0-9_]*") @@ ("require-description" :> "true")
    ELSE IF rulename = DependencyForFunc
    THEN ("dependencies" :> EmptyDict)
    ELSE IF rulename = TasksForVariants
    THEN ("task-variant-mappings" :> <<>>)
    ELSE ("regex" :> DefaultRegex)

\* the entries of the "rules" list of a config file
RuleEntries ==
    { ("rule" :> InvalidBuildParameter),
      ("rule" :> InvalidBuildParameter) @@ ("regex" :> "[A-Z]+"),
      ("rule" :> InvalidBuildParameter) @@ ("require-description" :> "false"),
      ("rule" :> RequiredExpansionsWrite) @@ ("regex" :> DefaultRegex),
      ("rule" :> RequiredExpansionsWrite) @@ ("regex" :> ToolsRegex) }

RuleLists == UNION {[1..n -> RuleEntries] : n \in 0..MaxRules}

AllFiles == <<"a.yml", "b.yml", "c.yml", "d.yml">>
FileLists == {SubSeq(AllFiles, 1, n) : n \in 1..MaxFiles}

\* ctx.obj["config"]: None, or what load_config returned
ContextConfigs ==
    {[loaded |-> FALSE, files |-> <<>>, rules |-> <<>>]}
    \cup [loaded : {TRUE}, files : FileLists, rules : RuleLists]

\* yaml.safe_load of the file's text
safe_load(yaml_file) ==
    IF yaml_file = "a.yml" THEN ("tasks" :> <<"t1">>)
    ELSE IF yaml_file = "b.yml" THEN ("tasks" :> <<"t2">>) @@ ("functions" :> <<"f1">>)
    ELSE ("functions" :> <<"f2">>)

\* the attributes that ReadOnlyDict replaces by __readonly__
ReadOnlyMethods ==
    {"__setitem__", "__delitem__", "pop", "popitem", "clear", "update", "setdefault"}

\* the operations of dict that change the dict
DictMethods == ReadOnlyMethods \cup {"__ior__"}

\* what the operation of dict does to the dict d
DictApply(d, op, k, v) ==
    IF op \in {"__setitem__", "update", "__ior__"}
    THEN [doc |-> Merge(d, k :> v), raised |-> "none"]
    ELSE IF op \in {"__delitem__", "pop"}
    THEN IF k \in DOMAIN d THEN [doc |-> Without(d, k), raised |-> "none"]
                           ELSE [doc |-> d, raised |-> "KeyError"]
    ELSE IF op = "popitem"
    THEN IF DOMAIN d = {} THEN [doc |-> d, raised |-> "KeyError"]
                          ELSE [doc |-> Without(d, CHOOSE x \in DOMAIN d : TRUE),
                                raised |-> "none"]
    ELSE IF op = "clear"
    THEN [doc |-> [x \in {} |-> <<>>], raised |-> "none"]
    ELSE [doc |-> IF k \in DOMAIN d THEN d ELSE Merge(d, k :> v), raised |-> "none"]

\* what the operation does to a ReadOnlyDict d
ReadOnlyApply(d, op, k, v) ==
    IF op \in ReadOnlyMethods
    THEN [doc |-> d, raised |-> "RuntimeError"]
    ELSE DictApply(d, op, k, v)

\* yamlhandler.load_file
load_file(yaml_file) == safe_load(yaml_file)

\* the keys and the value of the operations that the rules of the model apply
AttemptKeys == {"tasks", "pre"}
AttemptValue == <<"x">>

\* what a rule can return
RuleErrors == {<<>>, <<"error">>}

\* err_count of the errors of one file
RECURSIVE CountErrors(_, _)
CountErrors(d, keys) ==
    IF keys = {} THEN 0
    ELSE LET k == CHOOSE x \in keys : TRUE
         IN Len(d[k]) + CountErrors(d, keys \ {k})

\* the keys of the dict "rules" after rules[name] = ...
Inserted(names, name) ==
    IF \E i \in DOMAIN names : names[i] = name THEN names ELSE Append(names, name)

Merged_DefaultsWin(conf, rule) == Without(Merge(rule, conf), "rule")

\* lines 43-44: the config of a rule after one entry of the config file
Merged(conf, rule) == Without(Merge(conf, rule), "rule")

LintInit ==
    /\ yaml = CHOOSE d \in Documents : TRUE
    /\ config = DefaultConfig
    /\ invocation = 1
    /\ returned = <<>>
    /\ FreshLocals
    /\ CallIdle
    /\ LoadIdle
    /\ ToolsIdle
    /\ lpc = "start"
    /\ ctx_config \in ContextConfigs
    /\ ret = NoneIdx
    /\ configs = EmptyDict
    /\ lint_rules = <<>>
    /\ entry_pos = 1
    /\ file_pos = 1
    /\ rule_pos = 1
    /\ yaml_dict = EmptyDict
    /\ file_errors = EmptyDict
    /\ err_counts = <<>>
    /\ lint_config = EmptyDict
    /\ last_attempt = NoAttempt
    /\ exit_code = NoneIdx

\* lines 29-31
NoConfig ==
    /\ lpc = "start"
    /\ ~ctx_config.loaded
    /\ exit_code' = 1
    /\ lpc' = "exited"
    /\ UNCHANGED <<nonLintVars, ctx_config, ret, configs, lint_rules, entry_pos, file_pos,
                   rule_pos, yaml_dict, file_errors, err_counts, lint_config, last_attempt>>

\* lines 32-40
LoadDefaults ==
    /\ lpc = "start"
    /\ ctx_config.loaded
    /\ ret' = 0
    /\ configs' = [rulename \in RuleNames |-> DefaultsOf(rulename)]
    /\ lint_rules' = <<>>
    /\ entry_pos' = 1
    /\ lpc' = "override"
    /\ UNCHANGED <<nonLintVars, ctx_config, file_pos, rule_pos, yaml_dict, file_errors,
                   err_counts, lint_config, last_attempt, exit_code>>

\* lines 41-44, one iteration
OverrideRule ==
    /\ lpc = "override"
    /\ entry_pos <= Len(ctx_config.rules)
    /\ LET rule == ctx_config.rules[entry_pos]
       IN /\ lint_rules' = Inserted(lint_rules, rule["rule"])
          /\ configs' = [configs EXCEPT ![rule["rule"]] = Merged(@, rule)]
    /\ entry_pos' = entry_pos + 1
    /\ UNCHANGED <<nonLintVars, lpc, ctx_config, ret, file_pos, rule_pos, yaml_dict,
                   file_errors, err_counts, lint_config, last_attempt, exit_code>>

\* line 41, the list is exhausted
OverridesDone ==
    /\ lpc = "override"
    /\ entry_pos > Len(ctx_config.rules)
    /\ file_pos' = 1
    /\ lpc' = "files"
    /\ UNCHANGED <<nonLintVars, ctx_config, ret, configs, lint_rules, entry_pos, rule_pos,
                   yaml_dict, file_errors, err_counts, lint_config, last_attempt,
                   exit_code>>

\* lines 46-48
LoadFile ==
    /\ lpc = "files"
    /\ file_pos <= Len(ctx_config.files)
    /\ yaml_dict' = load_file(ctx_config.files[file_pos])
    /\ file_errors' = EmptyDict
    /\ rule_pos' = 1
    /\ last_attempt' = NoAttempt
    /\ lpc' = "rules"
    /\ UNCHANGED <<nonLintVars, ctx_config, ret, configs, lint_rules, entry_pos, file_pos,
                   err_counts, lint_config, exit_code>>

\* lines 49-54 and the call of line 55
BeginRule ==
    /\ lpc = "rules"
    /\ rule_pos <= Len(lint_rules)
    /\ LET rulename == lint_rules[rule_pos]
       IN lint_config' = IF rulename \in DOMAIN configs THEN configs[rulename]
                         ELSE DefaultsOf(rulename)
    /\ lpc' = "in_rule"
    /\ UNCHANGED <<nonLintVars, ctx_config, ret, configs, lint_rules, entry_pos, file_pos,
                   rule_pos, yaml_dict, file_errors, err_counts, last_attempt, exit_code>>

\* the rule applies an operation to the document it was handed
RuleModifies ==
    /\ lpc = "in_rule"
    /\ \E op \in DictMethods, k \in AttemptKeys :
        LET r == ReadOnlyApply(yaml_dict, op, k, AttemptValue)
        IN /\ yaml_dict' = r.doc
           /\ last_attempt' = [op |-> op, raised |-> r.raised]
    /\ UNCHANGED <<nonLintVars, lpc, ctx_config, ret, configs, lint_rules, entry_pos,
                   file_pos, rule_pos, file_errors, err_counts, lint_config, exit_code>>

\* lines 55-57, the rule returns
RuleReturns ==
    /\ lpc = "in_rule"
    /\ \E rule_errors \in RuleErrors :
        file_errors' = IF rule_errors # <<>>
                       THEN Merge(file_errors, lint_rules[rule_pos] :> rule_errors)
                       ELSE file_errors
    /\ rule_pos' = rule_pos + 1
    /\ lpc' = "rules"
    /\ UNCHANGED <<nonLintVars, ctx_config, ret, configs, lint_rules, entry_pos, file_pos,
                   yaml_dict, err_counts, lint_config, last_attempt, exit_code>>

\* line 55, the rule raises: nothing in lint catches the exception, and the
\* interpreter ends the process with status 1
RuleRaises ==
    /\ lpc = "in_rule"
    /\ exit_code' = 1
    /\ lpc' = "crashed"
    /\ UNCHANGED <<nonLintVars, ctx_config, ret, configs, lint_rules, entry_pos, file_pos,
                   rule_pos, yaml_dict, file_errors, err_counts, lint_config,
                   last_attempt>>

\* lines 59-81
FileDone ==
    /\ lpc = "rules"
    /\ rule_pos > Len(lint_rules)
    /\ LET err_count == CountErrors(file_errors, DOMAIN file_errors)
       IN /\ err_counts' = Append(err_counts, err_count)
          /\ ret' = IF err_count # 0 THEN 1 ELSE ret
    /\ file_pos' = file_pos + 1
    /\ lpc' = "files"
    /\ UNCHANGED <<nonLintVars, ctx_config, configs, lint_rules, entry_pos, rule_pos,
                   yaml_dict, file_errors, lint_config, last_attempt, exit_code>>

\* line 83
Exit ==
    /\ lpc = "files"
    /\ file_pos > Len(ctx_config.files)
    /\ exit_code' = ret
    /\ lpc' = "exited"
    /\ UNCHANGED <<nonLintVars, ctx_config, ret, configs, lint_rules, entry_pos, file_pos,
                   rule_pos, yaml_dict, file_errors, err_counts, lint_config, last_attempt>>

NextLint ==
    \/ NoConfig
    \/ LoadDefaults
    \/ OverrideRule
    \/ OverridesDone
    \/ LoadFile
    \/ BeginRule
    \/ RuleModifies
    \/ RuleReturns
    \/ RuleRaises
    \/ FileDone
    \/ Exit

SpecLint == LintInit /\ [][NextLint]_vars

\* some rule has returned errors for some file
Reported ==
    \/ \E i \in DOMAIN err_counts : err_counts[i] > 0
    \/ \E r \in DOMAIN file_errors : file_errors[r] # <<>>

\* C16: when lint has linted the files of its config, the process ends with
\* status 0 if no rule has reported an error for any file, and with status
\* 1 otherwise.
C16_ExitCode ==
    (lpc \in {"exited", "crashed"} /\ ctx_config.loaded)
        => exit_code = IF Reported THEN 1 ELSE 0

\* the positions of the entries of the config file that set the key of the rule
Overrides(rulename, k) ==
    {i \in DOMAIN ctx_config.rules :
        ctx_config.rules[i]["rule"] = rulename /\ k \in DOMAIN ctx_config.rules[i]}

Last(S) == CHOOSE i \in S : \A j \in S : j <= i

\* C17: the config a rule is called with has every key of the rule's
\* defaults, with the value of the last entry of the config file that sets
\* the key for the rule, or the default value when no entry sets it, and it
\* has no key "rule".
C17_MergedConfig ==
    lpc = "in_rule" =>
        LET rulename == lint_rules[rule_pos]
            defaults == DefaultsOf(rulename)
        IN /\ "rule" \notin DOMAIN lint_config
           /\ DOMAIN defaults \subseteq DOMAIN lint_config
           /\ \A k \in DOMAIN defaults :
                lint_config[k] =
                    IF Overrides(rulename, k) = {} THEN defaults[k]
                    ELSE ctx_config.rules[Last(Overrides(rulename, k))][k]

\* C17: a rule that the config file lists twice, with two values for one
\* key, is called.
C17_Witness ==
    /\ lpc = "in_rule"
    /\ \E k \in DOMAIN DefaultsOf(lint_rules[rule_pos]) :
        \E i, j \in Overrides(lint_rules[rule_pos], k) :
            i < j /\ ctx_config.rules[i][k] # ctx_config.rules[j][k]

\* C19: every operation that a rule applies to the document raises
\* RuntimeError, and every rule that runs on a file is handed the document
\* as it was loaded.
C19_ReadOnly ==
    /\ last_attempt.op # "none" => last_attempt.raised = "RuntimeError"
    /\ lpc \in {"rules", "in_rule"} => yaml_dict = load_file(ctx_config.files[file_pos])

(***************************************************************************)
(* One call of a rule other than required-expansions-write:                *)
(* dependency-for-func, tasks-for-variants or invalid-build-parameter.     *)
(***************************************************************************)
\* the longest list of tasks, build variants or parameters of a document
MaxItems == 2

ItemLists(S) == UNION {[1..n -> S] : n \in 0..MaxItems}

\* a key of the document: absent, null, or a list of the items
KeyValues(S) == {Absent, Null} \cup {ListOfItems(items) : items \in ItemLists(S)}

\* task definitions: the name, the dependencies of the task, and the
\* functions that the commands of the task call
TaskDefs == [name : {"t1", "t2"}, depends_on : {{}, {"d1"}}, funcs : {<<>>, <<"f_a">>, <<"f_b">>}]

\* build variants
VariantObjs == [name : {"v1", "v2"}, tasks : {{}, {"t1"}}]

\* build parameters; the key "good" matches the regex of the rule, "bad" does not
Params == [key : {"absent", "good", "bad"}, description : {"absent", "empty", "text"}]

\* the documents a rule is called on
RuleDocuments(rulename) ==
    IF rulename = DependencyForFunc
    THEN [tasks : KeyValues(TaskDefs), buildvariants : {Absent}, parameters : {Absent}]
    ELSE IF rulename = TasksForVariants
    THEN [tasks : {Absent}, buildvariants : KeyValues(VariantObjs), parameters : {Absent}]
    ELSE [tasks : {Absent}, buildvariants : {Absent}, parameters : KeyValues(Params)]

\* the configs a rule is called with
RuleConfigs(rulename) ==
    IF rulename = DependencyForFunc
    THEN {DefaultsOf(rulename),
          "dependencies" :> ("f_a" :> <<"d1">>),
          "dependencies" :> ("f_a" :> <<"d1", "d2">>)}
    ELSE IF rulename = TasksForVariants
    THEN {DefaultsOf(rulename),
          "task-variant-mappings" :> <<[tasks |-> {"t1"}, variants |-> <<"v1">>]>>,
          "task-variant-mappings" :> <<[tasks |-> {"t1"}, variants |-> <<"v1", "v2">>]>>,
          "task-variant-mappings" :> <<[tasks |-> {"t1"}, variants |-> <<"v1">>],
                                       [tasks |-> {}, variants |-> <<"v1">>]>>}
    ELSE {DefaultsOf(rulename),
          ("regex" :> "[a-z][a-z0-9_]*") @@ ("require-description" :> "false")}

CalledRules == {DependencyForFunc, TasksForVariants, InvalidBuildParameter}

CallInit ==
    /\ yaml = CHOOSE d \in Documents : TRUE
    /\ config = DefaultConfig
    /\ invocation = 1
    /\ returned = <<>>
    /\ FreshLocals
    /\ LintIdle
    /\ LoadIdle
    /\ ToolsIdle
    /\ rule_name \in CalledRules
    /\ rconfig \in RuleConfigs(rule_name)
    /\ ryaml \in RuleDocuments(rule_name)
    /\ rpc = "start"
    /\ item_pos = 1
    /\ failed_checks = <<>>
    /\ variant_mappings = EmptyDict
    /\ unused_variants = {}
    /\ raised = "none"

\* dict.get(key, default)
Get(d, k, default) == IF k \in DOMAIN d THEN d[k] ELSE default

\* helpers.determine_dependencies_of_task_def
determine_dependencies_of_task_def(task_def) == task_def.depends_on

\* the elements of a sequence that satisfy a test, in order
RECURSIVE SelectFrom(_, _)
SelectFrom(s, S) ==
    IF s = <<>> THEN <<>>
    ELSE (IF Head(s) \in S THEN <<Head(s)>> ELSE <<>>) \o SelectFrom(Tail(s), S)

\* MissingDependencies without the test of the task's actual dependencies
MissingDependencies_IgnoresActual(task_def, func, dependency_map) ==
    LET expected_dependencies == Get(dependency_map, func, <<>>)
    IN [i \in DOMAIN expected_dependencies |->
            [kind |-> "Missing dependency", task_name |-> task_def.name,
             dependency |-> expected_dependencies[i], function |-> func]]

\* dependency_for_func.py lines 42-49 for one func of one task
MissingDependencies(task_def, func, dependency_map) ==
    LET expected_dependencies == Get(dependency_map, func, <<>>)
        unmet == SelectFrom(expected_dependencies,
                            {dep \in {expected_dependencies[i] :
                                        i \in DOMAIN expected_dependencies} :
                                dep \notin determine_dependencies_of_task_def(task_def)})
    IN [i \in DOMAIN unmet |->
            [kind |-> "Missing dependency", task_name |-> task_def.name,
             dependency |-> unmet[i], function |-> func]]

\* dependency_for_func.py lines 40-50 for the funcs of one task
RECURSIVE ChecksOfFuncs(_, _, _)
ChecksOfFuncs(task_def, funcs, dependency_map) ==
    IF funcs = <<>> THEN <<>>
    ELSE MissingDependencies(task_def, Head(funcs), dependency_map)
         \o ChecksOfFuncs(task_def, Tail(funcs), dependency_map)

\* dependency_for_func.py lines 31-37
DependencyForFunc_Begin ==
    /\ rpc = "start"
    /\ rule_name = DependencyForFunc
    /\ failed_checks' = <<>>
    /\ item_pos' = 1
    /\ IF ryaml.tasks.key = "list"
       THEN rpc' = "loop" /\ raised' = raised
       ELSE rpc' = "raised" /\ raised' = "TypeError"
    /\ UNCHANGED <<nonCallVars, rule_name, rconfig, ryaml, variant_mappings,
                   unused_variants>>

\* dependency_for_func.py lines 37-50, one task
DependencyForFunc_Task ==
    /\ rpc = "loop"
    /\ rule_name = DependencyForFunc
    /\ item_pos <= Len(ryaml.tasks.items)
    /\ LET task_def == ryaml.tasks.items[item_pos]
           dependency_map == Get(rconfig, "dependencies", EmptyDict)
       IN failed_checks' =
            failed_checks \o ChecksOfFuncs(task_def, task_def.funcs, dependency_map)
    /\ item_pos' = item_pos + 1
    /\ UNCHANGED <<nonCallVars, rule_name, rconfig, ryaml, rpc, variant_mappings,
                   unused_variants, raised>>

\* dependency_for_func.py line 52
DependencyForFunc_Return ==
    /\ rpc = "loop"
    /\ rule_name = DependencyForFunc
    /\ item_pos > Len(ryaml.tasks.items)
    /\ rpc' = "returned"
    /\ UNCHANGED <<nonCallVars, rule_name, rconfig, ryaml, item_pos, failed_checks,
                   variant_mappings, unused_variants, raised>>

\* the (variant, tasks) pairs of the mappings, in the order of
\* tasks_for_variants.py lines 14-16
RECURSIVE PairsOf(_)
PairsOf(raw_mappings) ==
    IF raw_mappings = <<>> THEN <<>>
    ELSE LET mapping == Head(raw_mappings)
         IN [i \in DOMAIN mapping.variants |->
                [variant |-> mapping.variants[i], tasks |-> mapping.tasks]]
            \o PairsOf(Tail(raw_mappings))

\* tasks_for_variants.py lines 18-21
RECURSIVE RepeatedInConfig(_, _)
RepeatedInConfig(pairs, i) ==
    IF i > Len(pairs) THEN <<>>
    ELSE (IF \E j \in 1..(i - 1) : pairs[j].variant = pairs[i].variant
          THEN <<[kind |-> "appeared more than once", variant |-> pairs[i].variant]>>
          ELSE <<>>)
         \o RepeatedInConfig(pairs, i + 1)

\* tasks_for_variants.py line 22, after the loop
VariantMappings(pairs) ==
    [v \in {pairs[i].variant : i \in DOMAIN pairs} |->
        pairs[CHOOSE i \in DOMAIN pairs :
                /\ pairs[i].variant = v
                /\ \A j \in DOMAIN pairs : pairs[j].variant = v => j <= i].tasks]

\* tasks_for_variants.py lines 79-89, up to the first iteration of the loop
TasksForVariants_Begin ==
    /\ rpc = "start"
    /\ rule_name = TasksForVariants
    /\ LET pairs == PairsOf(rconfig["task-variant-mappings"])
           config_errors == RepeatedInConfig(pairs, 1)
       IN /\ variant_mappings' = VariantMappings(pairs)
          /\ unused_variants' = {pairs[i].variant : i \in DOMAIN pairs}
          /\ IF ryaml.buildvariants.key = "null"
             THEN /\ failed_checks' =
                        Append(config_errors, [kind |-> "No variants defined"])
                  /\ rpc' = "raised"
                  /\ raised' = "TypeError"
             ELSE /\ failed_checks' = config_errors
                  /\ rpc' = "loop"
                  /\ raised' = raised
    /\ item_pos' = 1
    /\ UNCHANGED <<nonCallVars, rule_name, rconfig, ryaml>>

\* tasks_for_variants.py lines 89-100, one build variant
TasksForVariants_Variant ==
    /\ rpc = "loop"
    /\ rule_name = TasksForVariants
    /\ item_pos <= Len(ryaml.buildvariants.items)
    /\ LET variant_obj == ryaml.buildvariants.items[item_pos]
           variant == variant_obj.name
           actual_tasks == variant_obj.tasks
       IN IF variant \notin DOMAIN variant_mappings
          THEN /\ item_pos' = item_pos + 1
               /\ UNCHANGED <<rpc, failed_checks, unused_variants, raised>>
          ELSE IF variant \notin unused_variants
          THEN /\ rpc' = "raised"
               /\ raised' = "KeyError"
               /\ UNCHANGED <<item_pos, failed_checks, unused_variants>>
          ELSE /\ unused_variants' = unused_variants \ {variant}
               /\ failed_checks' =
                    IF variant_mappings[variant] # actual_tasks
                    THEN Append(failed_checks,
                                [kind |-> "Mismatched task list", variant |-> variant,
                                 expected |-> variant_mappings[variant],
                                 actual |-> actual_tasks])
                    ELSE failed_checks
               /\ item_pos' = item_pos + 1
               /\ UNCHANGED <<rpc, raised>>
    /\ UNCHANGED <<nonCallVars, rule_name, rconfig, ryaml, variant_mappings>>

\* tasks_for_variants.py lines 102-107
TasksForVariants_Return ==
    /\ rpc = "loop"
    /\ rule_name = TasksForVariants
    /\ item_pos > Len(ryaml.buildvariants.items)
    /\ failed_checks' =
        IF unused_variants # {}
        THEN Append(failed_checks,
                    [kind |-> "unknown variant names", names |-> unused_variants])
        ELSE failed_checks
    /\ rpc' = "returned"
    /\ UNCHANGED <<nonCallVars, rule_name, rconfig, ryaml, item_pos,
                   variant_mappings, unused_variants, raised>>

\* invalid_build_parameter.py lines 19-32, up to the first iteration of the loop
InvalidBuildParameter_Begin ==
    /\ rpc = "start"
    /\ rule_name = InvalidBuildParameter
    /\ failed_checks' = <<>>
    /\ item_pos' = 1
    /\ IF ryaml.parameters.key = "absent"
       THEN rpc' = "returned" /\ raised' = raised
       ELSE IF ryaml.parameters.key = "null"
       THEN rpc' = "raised" /\ raised' = "TypeError"
       ELSE rpc' = "loop" /\ raised' = raised
    /\ UNCHANGED <<nonCallVars, rule_name, rconfig, ryaml, variant_mappings,
                   unused_variants>>

\* invalid_build_parameter.py lines 32-40, one parameter; its index is item_pos - 1
InvalidBuildParameter_Param ==
    /\ rpc = "loop"
    /\ rule_name = InvalidBuildParameter
    /\ item_pos <= Len(ryaml.parameters.items)
    /\ LET param == ryaml.parameters.items[item_pos]
           key_errors ==
                IF param.key # "good"
                THEN <<[kind |-> "key", idx |-> item_pos - 1]>> ELSE <<>>
       IN IF rconfig["require-description"] = "true" /\ param.description = "absent"
          THEN /\ failed_checks' = failed_checks \o key_errors
                                   \o <<[kind |-> "description", idx |-> item_pos - 1]>>
               /\ item_pos' = item_pos + 1
               /\ UNCHANGED <<rpc, raised>>
          ELSE IF param.description = "absent"
          THEN /\ failed_checks' = failed_checks \o key_errors
               /\ rpc' = "raised"
               /\ raised' = "KeyError"
               /\ UNCHANGED item_pos
          ELSE /\ failed_checks' =
                    failed_checks \o key_errors
                    \o (IF param.description = "empty"
                        THEN <<[kind |-> "description", idx |-> item_pos - 1]>>
                        ELSE <<>>)
               /\ item_pos' = item_pos + 1
               /\ UNCHANGED <<rpc, raised>>
    /\ UNCHANGED <<nonCallVars, rule_name, rconfig, ryaml, variant_mappings,
                   unused_variants>>

\* invalid_build_parameter.py line 41
InvalidBuildParameter_Return ==
    /\ rpc = "loop"
    /\ rule_name = InvalidBuildParameter
    /\ item_pos > Len(ryaml.parameters.items)
    /\ rpc' = "returned"
    /\ UNCHANGED <<nonCallVars, rule_name, rconfig, ryaml, item_pos, failed_checks,
                   variant_mappings, unused_variants, raised>>

NextCall ==
    \/ DependencyForFunc_Begin
    \/ DependencyForFunc_Task
    \/ DependencyForFunc_Return
    \/ TasksForVariants_Begin
    \/ TasksForVariants_Variant
    \/ TasksForVariants_Return
    \/ InvalidBuildParameter_Begin
    \/ InvalidBuildParameter_Param
    \/ InvalidBuildParameter_Return

SpecCall == CallInit /\ [][NextCall]_vars

\* C18: a rule that is called with its default config returns a list of
\* errors; no exception leaves the call.
C18_NoRuleRaises ==
    rconfig = DefaultsOf(rule_name) => (rpc # "raised" /\ raised = "none")

(***************************************************************************)
(* config.load (config.py).                                                *)
(***************************************************************************)
\* the keys of RULES that the model covers
AllRuleNames == RuleNames \cup {DependencyForFunc, TasksForVariants}

DEFAULT_HELP_URL == "https://github.com/evergreen-ci/config-lint"

\* the elements of "files": strings (relative or absolute paths) and others
FileItems ==
    {[type |-> "str", abs |-> FALSE, name |-> "a.yml"],
     [type |-> "str", abs |-> TRUE, name |-> "b.yml"],
     [type |-> "int", abs |-> FALSE, name |-> "7"]}

\* a scalar string: its elements are its characters, each a str
Str(items) == [key |-> "str", items |-> items]

\* the values of "files" in a config file
FilesValues ==
    {Absent, Null, Str(<<[type |-> "str", abs |-> FALSE, name |-> "a"]>>)}
    \cup {ListOfItems(items) : items \in UNION {[1..n -> FileItems] : n \in 0..MaxFiles}}

HelpUrlValues == {NoKey, "", "https://example.com/help"}

\* an element of "rules": a mapping, or null
Entry(d) == [type |-> "dict", dict |-> d]
NullEntry == [type |-> "null", dict |-> EmptyDict]

RawRuleEntries ==
    {NullEntry,
     Entry("regex" :> ToolsRegex),
     Entry("rule" :> "no-such-rule"),
     Entry("rule" :> RequiredExpansionsWrite),
     Entry(("rule" :> RequiredExpansionsWrite) @@ ("regex" :> ToolsRegex)),
     Entry(("rule" :> RequiredExpansionsWrite) @@ ("limit" :> "1"))}

RulesValues ==
    {Absent, Null}
    \cup {ListOfItems(items) : items \in UNION {[1..n -> RawRuleEntries] : n \in 0..MaxRules}}

\* what yaml.safe_load makes of the text: a value that is not a mapping, or
\* a mapping
Streams ==
    {[kind |-> "list", conf |-> NoConf]}
    \cup [kind : {"dict"},
          conf : [files : FilesValues, help_url : HelpUrlValues, rules : RulesValues]]

\* lines 62-63
ConfigFileInvalid == [type |-> "RuntimeError", prefix |-> "config file invalid:"]

\* an exception that line 62 does not catch
Uncaught(type) == [type |-> type, prefix |-> "none"]

\* "not x" for the value of a key
Falsy(v) == v.key \in {"absent", "null"} \/ v.items = <<>>

\* os.path.abspath(os.path.join(path, file))
abspath_join(file) == [file EXCEPT !.abs = TRUE]

LoadInit ==
    /\ yaml = CHOOSE d \in Documents : TRUE
    /\ config = DefaultConfig
    /\ invocation = 1
    /\ returned = <<>>
    /\ FreshLocals
    /\ LintIdle
    /\ CallIdle
    /\ ToolsIdle
    /\ stream \in Streams
    /\ rawconf = NoConf
    /\ cpc = "start"
    /\ ci = 0
    /\ load_error = NoError

\* lines 60, 25-28
LoadStart ==
    /\ cpc = "start"
    /\ rawconf' = stream.conf
    /\ ci' = 0
    /\ IF stream.kind # "dict" \/ Falsy(stream.conf.files)
       THEN cpc' = "raised" /\ load_error' = ConfigFileInvalid
       ELSE cpc' = "files" /\ load_error' = load_error
    /\ UNCHANGED <<nonLoadVars, stream>>

\* lines 29-32, one element of "files"
LoadFileItem ==
    /\ cpc = "files"
    /\ ci < Len(rawconf.files.items)
    /\ LET file == rawconf.files.items[ci + 1]
       IN IF file.type # "str"
          THEN /\ cpc' = "raised"
               /\ load_error' = ConfigFileInvalid
               /\ UNCHANGED <<rawconf, ci>>
          ELSE IF rawconf.files.key # "list"
          THEN /\ cpc' = "raised"
               /\ load_error' = Uncaught("TypeError")
               /\ UNCHANGED <<rawconf, ci>>
          ELSE /\ rawconf' = [rawconf EXCEPT !.files.items[ci + 1] = abspath_join(file)]
               /\ ci' = ci + 1
               /\ UNCHANGED <<cpc, load_error>>
    /\ UNCHANGED <<nonLoadVars, stream>>

\* lines 34-38
LoadHelpUrl ==
    /\ cpc = "files"
    /\ ci >= Len(rawconf.files.items)
    /\ rawconf' = [rawconf EXCEPT !.help_url =
                        IF @ = NoKey \/ @ = "" THEN DEFAULT_HELP_URL ELSE @]
    /\ ci' = 0
    /\ IF Falsy(rawconf.rules)
       THEN cpc' = "raised" /\ load_error' = ConfigFileInvalid
       ELSE cpc' = "rules" /\ load_error' = load_error
    /\ UNCHANGED <<nonLoadVars, stream>>

\* lines 39-55, one element of "rules"
LoadRuleEntry ==
    /\ cpc = "rules"
    /\ ci < Len(rawconf.rules.items)
    /\ LET entry == rawconf.rules.items[ci + 1]
           config_file_params == DOMAIN entry.dict \ {"rule"}
       IN IF entry.type # "dict"
          THEN /\ cpc' = "raised"
               /\ load_error' = Uncaught("TypeError")
               /\ ci' = ci
          ELSE IF \/ "rule" \notin DOMAIN entry.dict
                  \/ entry.dict["rule"] \notin AllRuleNames
                  \/ ~(config_file_params \subseteq DOMAIN DefaultsOf(entry.dict["rule"]))
          THEN /\ cpc' = "raised"
               /\ load_error' = ConfigFileInvalid
               /\ ci' = ci
          ELSE /\ ci' = ci + 1
               /\ UNCHANGED <<cpc, load_error>>
    /\ UNCHANGED <<nonLoadVars, stream, rawconf>>

\* lines 57 and 61
LoadReturn ==
    /\ cpc = "rules"
    /\ ci >= Len(rawconf.rules.items)
    /\ cpc' = "returned"
    /\ UNCHANGED <<nonLoadVars, stream, rawconf, ci, load_error>>

NextLoad ==
    \/ LoadStart
    \/ LoadFileItem
    \/ LoadHelpUrl
    \/ LoadRuleEntry
    \/ LoadReturn

SpecLoad == LoadInit /\ [][NextLoad]_vars

\* the config that load returns is valid
ValidConfig(conf) ==
    /\ conf.files.key = "list" /\ conf.files.items # <<>>
    /\ conf.help_url \notin {NoKey, ""}
    /\ conf.rules.key = "list" /\ conf.rules.items # <<>>
    /\ \A i \in DOMAIN conf.rules.items :
        LET entry == conf.rules.items[i]
        IN /\ entry.type = "dict"
           /\ "rule" \in DOMAIN entry.dict
           /\ entry.dict["rule"] \in AllRuleNames
           /\ DOMAIN entry.dict \ {"rule"} \subseteq DOMAIN DefaultsOf(entry.dict["rule"])

\* C20: config.load ends either with RuntimeError("config file invalid:
\* ...") or by returning a valid config, whose help_url is DEFAULT_HELP_URL
\* when the file gives none.
C20_LoadOutcome ==
    /\ cpc = "raised" => load_error = ConfigFileInvalid
    /\ cpc = "returned" =>
        /\ ValidConfig(rawconf)
        /\ stream.conf.help_url \in {NoKey, ""} => rawconf.help_url = DEFAULT_HELP_URL

(***************************************************************************)
(* Properties of the calls of the three rules.                             *)
(***************************************************************************)
\* the elements of a sequence
Range(s) == {s[i] : i \in DOMAIN s}

\* the indexes of the parameters reported for their description
DescriptionErrors ==
    {failed_checks[k].idx : k \in {m \in DOMAIN failed_checks :
                                        failed_checks[m].kind = "description"}}

\* C24: invalid-build-parameter reports "must have a description" for a
\* parameter only if require-description is true and the description is
\* absent or empty, and, once it has returned, for every such parameter.
C24_DescriptionOnlyIfRequired ==
    rule_name = InvalidBuildParameter =>
        \A i \in DOMAIN ryaml.parameters.items :
            LET wanted == /\ rconfig["require-description"] = "true"
                          /\ ryaml.parameters.items[i].description \in {"absent", "empty"}
            IN /\ (i - 1) \in DescriptionErrors => wanted
               /\ (rpc = "returned" /\ wanted) => (i - 1) \in DescriptionErrors

\* the variant names of the task-variant-mappings of the config
ConfiguredVariants ==
    UNION {Range(rconfig["task-variant-mappings"][i].variants) :
                i \in DOMAIN rconfig["task-variant-mappings"]}

\* the names of the build variants of the document
DocumentVariants ==
    {ryaml.buildvariants.items[i].name : i \in DOMAIN ryaml.buildvariants.items}

\* C25: tasks-for-variants processes every build variant of the document,
\* whatever the sequence of their names; after that unused_variants is the
\* set of the configured names that the document does not have, and the
\* "unknown variant names" error is reported iff the set is not empty.
C25_UnusedVariants ==
    (rule_name = TasksForVariants /\ ryaml.buildvariants.key # "null") =>
        /\ raised = "none"
        /\ rpc = "returned" =>
            /\ unused_variants = ConfiguredVariants \ DocumentVariants
            /\ (\E k \in DOMAIN failed_checks :
                    failed_checks[k].kind = "unknown variant names")
                <=> (ConfiguredVariants \ DocumentVariants # {})

\* the (task, function, dependency) triples that the errors name
ReportedTriples ==
    {<<failed_checks[k].task_name, failed_checks[k].function, failed_checks[k].dependency>> :
        k \in DOMAIN failed_checks}

\* the triples of the document and the config: the task calls the function,
\* the config maps the function to a list with the dependency, and the
\* dependency is not among the task's actual dependencies
MissingTriples ==
    LET dependency_map == rconfig["dependencies"]
    IN UNION {
        UNION {
            {<<ryaml.tasks.items[i].name, func, dep>> :
                dep \in Range(Get(dependency_map, func, <<>>))
                        \ determine_dependencies_of_task_def(ryaml.tasks.items[i])} :
            func \in Range(ryaml.tasks.items[i].funcs)} :
        i \in DOMAIN ryaml.tasks.items}

\* C26: dependency-for-func reports only "Missing dependency" errors, each
\* for a triple of MissingTriples, and, once it has returned, one for every
\* such triple.
C26_MissingDependencyIff ==
    rule_name = DependencyForFunc =>
        /\ \A k \in DOMAIN failed_checks : failed_checks[k].kind = "Missing dependency"
        /\ ReportedTriples \subseteq MissingTriples
        /\ rpc = "returned" => ReportedTriples = MissingTriples

\* the rule has returned an error for one task and none for another task
\* that calls a function
C26_Witness ==
    /\ rule_name = DependencyForFunc
    /\ rpc = "returned"
    /\ ReportedTriples # {}
    /\ \E i \in DOMAIN ryaml.tasks.items :
        /\ ryaml.tasks.items[i].funcs # <<>>
        /\ \A t \in ReportedTriples : t[1] # ryaml.tasks.items[i].name

(***************************************************************************)
(* mongo_tooling_metrics: the hook registry (registry.py, __init__.py),    *)
(* the exit hook (base_hook.py, lib/hooks.py) and the registration and     *)
(* saving of metrics (base_metrics.py).  The threads of one process call   *)
(* register_metrics and register_hook; then sys.exit is called once and    *)
(* the atexit handlers run (SpecHooks).                                    *)
(***************************************************************************)
\* the calls of register_metrics and register_hook of one process
MaxCalls == 3

\* the values of "status" handed to sys.exit; NoStatus is None
NoStatus == -1
Statuses == {NoStatus, 0, 2}

\* the class of a hook object: hook_instance.__class__, registry.py line 17
ClassOf(h) == instances[h].cls

\* the exceptions a step of _safe_save_metrics raises, by their place in
\* the hierarchy of the builtin exceptions
RaisedKinds == {"Exception", "KeyboardInterrupt", "SystemExit"}

\* "except Exception", base_metrics.py line 74
Caught_Nothing(kind) == FALSE

Caught(kind) == kind = "Exception"

\* the three statements of the try block of base_metrics.py lines 69-73
SaveSteps == {"get_mongo_metrics_client", "generate_metrics", "insert_one"}

\* base_metrics.py line 57, should_collect_metrics() false: line 58
RegisterMetrics_Skip(t) ==
    /\ phase = "running"
    /\ hpc[t] = "idle"
    /\ ncalls < MaxCalls
    /\ ncalls' = ncalls + 1
    /\ skips' = skips + 1
    /\ UNCHANGED <<nonHookVars, registry, lock, instances, hpc, harg, hret, hkind, hcalls,
                   sys_exit, atexit_handlers, phase, exited, handlers_run, last_save>>

\* base_metrics.py lines 57 and 59, then line 44 up to the call of
\* register_hook: ExitHook(original_fn=sys.exit)
RegisterMetrics_Collect(t) ==
    /\ phase = "running"
    /\ hpc[t] = "idle"
    /\ ncalls < MaxCalls
    /\ ncalls' = ncalls + 1
    /\ instances' = Append(instances,
                           [cls |-> "ExitHook", original_fn |-> sys_exit, exit_code |-> 0])
    /\ harg' = [harg EXCEPT ![t] = Len(instances) + 1]
    /\ hkind' = [hkind EXCEPT ![t] = "initialize_hooks"]
    /\ hpc' = [hpc EXCEPT ![t] = "acquire"]
    /\ UNCHANGED <<nonHookVars, registry, lock, hret, hcalls, sys_exit, atexit_handlers,
                   skips, phase, exited, handlers_run, last_save>>

\* register_hook(hook_instance) called by other code of the process with a
\* new hook object, __init__.py lines 11-13
RegisterHook(t, cls) ==
    /\ phase = "running"
    /\ hpc[t] = "idle"
    /\ ncalls < MaxCalls
    /\ ncalls' = ncalls + 1
    /\ instances' = Append(instances,
                           [cls |-> cls, original_fn |-> RealExit, exit_code |-> 0])
    /\ harg' = [harg EXCEPT ![t] = Len(instances) + 1]
    /\ hkind' = [hkind EXCEPT ![t] = "caller"]
    /\ hpc' = [hpc EXCEPT ![t] = "acquire"]
    /\ UNCHANGED <<nonHookVars, registry, lock, hret, hcalls, sys_exit, atexit_handlers,
                   skips, phase, exited, handlers_run, last_save>>

\* registry.py line 16, "with self.lock"
Acquire(t) ==
    /\ phase = "running"
    /\ hpc[t] = "acquire"
    /\ lock = NoThread
    /\ lock' = t
    /\ hpc' = [hpc EXCEPT ![t] = "setdefault"]
    /\ UNCHANGED <<nonHookVars, registry, instances, harg, hret, hkind, hcalls, sys_exit,
                   atexit_handlers, ncalls, skips, phase, exited, handlers_run, last_save>>

\* registry.py line 17 with a setdefault that replaces the entry
SetDefault_Overwrites(t) ==
    /\ phase = "running"
    /\ hpc[t] = "setdefault"
    /\ registry' = [registry EXCEPT ![ClassOf(harg[t])] = harg[t]]
    /\ hpc' = [hpc EXCEPT ![t] = "return"]
    /\ UNCHANGED <<nonHookVars, lock, instances, harg, hret, hkind, hcalls, sys_exit,
                   atexit_handlers, ncalls, skips, phase, exited, handlers_run, last_save>>

\* registry.py line 17, self.registry.setdefault(hook_instance.__class__, hook_instance)
SetDefault(t) ==
    /\ phase = "running"
    /\ hpc[t] = "setdefault"
    /\ registry' = [registry EXCEPT ![ClassOf(harg[t])] =
                        IF @ = NoHook THEN harg[t] ELSE @]
    /\ hpc' = [hpc EXCEPT ![t] = "return"]
    /\ UNCHANGED <<nonHookVars, lock, instances, harg, hret, hkind, hcalls, sys_exit,
                   atexit_handlers, ncalls, skips, phase, exited, handlers_run, last_save>>

\* registry.py line 18 and the end of the with block of line 16
ReturnHook(t) ==
    /\ phase = "running"
    /\ hpc[t] = "return"
    /\ hret' = [hret EXCEPT ![t] = registry[ClassOf(harg[t])]]
    /\ lock' = NoThread
    /\ hcalls' = hcalls \cup {[cls |-> ClassOf(harg[t]), arg |-> harg[t],
                               ret |-> registry[ClassOf(harg[t])]]}
    /\ hpc' = [hpc EXCEPT ![t] = IF hkind[t] = "initialize_hooks" THEN "assign" ELSE "idle"]
    /\ UNCHANGED <<nonHookVars, registry, instances, harg, hkind, sys_exit, atexit_handlers,
                   ncalls, skips, phase, exited, handlers_run, last_save>>

\* base_metrics.py line 44 binding sys.exit to the hook it constructed
AssignSysExit_OwnHook(t) ==
    /\ phase = "running"
    /\ hpc[t] = "assign"
    /\ sys_exit' = harg[t]
    /\ hpc' = [hpc EXCEPT ![t] = "atexit"]
    /\ UNCHANGED <<nonHookVars, registry, lock, instances, harg, hret, hkind, hcalls,
                   atexit_handlers, ncalls, skips, phase, exited, handlers_run, last_save>>

\* base_metrics.py line 44, sys.exit = register_hook(...)
AssignSysExit(t) ==
    /\ phase = "running"
    /\ hpc[t] = "assign"
    /\ sys_exit' = hret[t]
    /\ hpc' = [hpc EXCEPT ![t] = "atexit"]
    /\ UNCHANGED <<nonHookVars, registry, lock, instances, harg, hret, hkind, hcalls,
                   atexit_handlers, ncalls, skips, phase, exited, handlers_run, last_save>>

\* base_metrics.py lines 60-63, atexit.register(cls._safe_save_metrics, **kwargs)
AtexitRegister(t) ==
    /\ phase = "running"
    /\ hpc[t] = "atexit"
    /\ atexit_handlers' = atexit_handlers + 1
    /\ hpc' = [hpc EXCEPT ![t] = "idle"]
    /\ UNCHANGED <<nonHookVars, registry, lock, instances, harg, hret, hkind, hcalls,
                   sys_exit, ncalls, skips, phase, exited, handlers_run, last_save>>

\* the functions one call of fn runs, in order: BaseHook.__call__ runs
\* passthrough_logic of the hook and then its original_fn, base_hook.py
\* lines 20-23
RECURSIVE CallChain(_)
CallChain(fn) ==
    IF fn = RealExit THEN <<RealExit>>
    ELSE <<fn>> \o CallChain(instances[fn].original_fn)

\* lib/hooks.py lines 13-14, the exit code ExitHook.passthrough_logic stores
ExitCodeOf(status) == IF status # NoStatus THEN status ELSE 0

\* the hook objects among the functions of a call chain
HooksOf(chain) == {chain[i] : i \in DOMAIN chain} \ {RealExit}

\* sys.exit(status) called by the process
SysExit(status) ==
    /\ phase = "running"
    /\ instances' = [h \in DOMAIN instances |->
                        IF h \in HooksOf(CallChain(sys_exit))
                        THEN [instances[h] EXCEPT !.exit_code = ExitCodeOf(status)]
                        ELSE instances[h]]
    /\ exited' = [done |-> TRUE, status |-> status, calls |-> CallChain(sys_exit)]
    /\ phase' = "exiting"
    /\ UNCHANGED <<nonHookVars, registry, lock, hpc, harg, hret, hkind, hcalls, sys_exit,
                   atexit_handlers, ncalls, skips, handlers_run, last_save>>

\* one atexit handler: _safe_save_metrics, all of whose statements succeed,
\* base_metrics.py lines 68-73
SafeSaveMetrics_Saved ==
    /\ phase = "exiting"
    /\ handlers_run < atexit_handlers
    /\ handlers_run' = handlers_run + 1
    /\ last_save' = [step |-> "none", kind |-> "none", outcome |-> "returned",
                     logged |-> FALSE]
    /\ UNCHANGED <<nonHookVars, registry, lock, instances, hpc, harg, hret, hkind, hcalls,
                   sys_exit, atexit_handlers, ncalls, skips, phase, exited>>

\* one atexit handler: _safe_save_metrics, one of whose statements raises,
\* base_metrics.py lines 68-75
SafeSaveMetrics_Failed(step, kind) ==
    /\ phase = "exiting"
    /\ handlers_run < atexit_handlers
    /\ handlers_run' = handlers_run + 1
    /\ last_save' = [step |-> step, kind |-> kind,
                     outcome |-> IF Caught(kind) THEN "returned" ELSE "raised",
                     logged |-> Caught(kind)]
    /\ UNCHANGED <<nonHookVars, registry, lock, instances, hpc, harg, hret, hkind, hcalls,
                   sys_exit, atexit_handlers, ncalls, skips, phase, exited>>

NextHooks ==
    \/ \E t \in Threads : RegisterMetrics_Skip(t)
    \/ \E t \in Threads : RegisterMetrics_Collect(t)
    \/ \E t \in Threads : \E cls \in HookClasses : RegisterHook(t, cls)
    \/ \E t \in Threads : Acquire(t)
    \/ \E t \in Threads : SetDefault(t)
    \/ \E t \in Threads : ReturnHook(t)
    \/ \E t \in Threads : AssignSysExit(t)
    \/ \E t \in Threads : AtexitRegister(t)
    \/ \E status \in Statuses : SysExit(status)
    \/ SafeSaveMetrics_Saved
    \/ \E step \in SaveSteps : \E kind \in RaisedKinds : SafeSaveMetrics_Failed(step, kind)

HooksInit ==
    /\ yaml = CHOOSE d \in Documents : TRUE
    /\ config = DefaultConfig
    /\ invocation = 1
    /\ returned = <<>>
    /\ FreshLocals
    /\ LintIdle
    /\ CallIdle
    /\ LoadIdle
    /\ ToolsIdle

SpecHooks == HooksInit /\ [][NextHooks]_vars

\* C21: register_hook keeps one singleton per hook class: every call that
\* has returned for a class returned the one instance the registry holds
\* for it, which is the first one stored, and an entry of the registry
\* never changes once it is set, whatever the interleaving of the threads.
C21_Singleton ==
    /\ [](\A call \in hcalls : call.ret = registry[call.cls] /\ call.ret # NoHook)
    /\ [](\A c \in HookClasses : \A call \in hcalls :
            call.cls = c => \A other \in hcalls : other.cls = c => other.ret = call.ret)
    /\ [][\A c \in HookClasses : registry[c] # NoHook => registry'[c] = registry[c]]_vars

\* C21: two calls have registered two different instances of one class, both
\* have returned, and the second was handed the instance of the first
C21_Witness ==
    \E a \in hcalls : \E b \in hcalls :
        /\ a.cls = b.cls
        /\ a.arg # b.arg
        /\ a.ret = b.ret
        /\ a.ret = a.arg
        /\ b.ret # b.arg

\* C30: once a call of initialize_hooks has bound sys.exit, sys.exit is the
\* ExitHook of the registry and that hook's original_fn is the builtin
\* sys.exit, however many calls of initialize_hooks follow; so one call of
\* sys.exit(status) runs the hook's passthrough_logic once, then the builtin
\* once, and leaves exit_code equal to status, or to 0 for a status of None.
C30_SingleExitHook ==
    /\ [](sys_exit # RealExit =>
            /\ sys_exit = registry["ExitHook"]
            /\ instances[sys_exit].original_fn = RealExit)
    /\ [](exited.done /\ sys_exit # RealExit =>
            /\ exited.calls = <<sys_exit, RealExit>>
            /\ instances[sys_exit].exit_code = ExitCodeOf(exited.status))

\* C30: initialize_hooks has run twice, the second call having built a hook
\* around the first, and sys.exit(2) has been called
C30_Witness ==
    /\ exited.done
    /\ exited.status = 2
    /\ sys_exit # RealExit
    /\ atexit_handlers >= 2
    /\ \E h \in DOMAIN instances :
        /\ instances[h].cls = "ExitHook"
        /\ instances[h].original_fn = sys_exit

\* C22 as stated: _safe_save_metrics never propagates an exception: whatever
\* a statement of its try block raises, the call logs the warning and
\* returns normally.
C22_NeverPropagates ==
    last_save.kind # "none" => last_save.outcome = "returned" /\ last_save.logged

\* C22: _safe_save_metrics never propagates an exception derived from
\* Exception: if obtaining the client, generating the metrics or inserting
\* the document raises one, the call logs the warning and returns normally;
\* and a register_metrics call that finds should_collect_metrics() false
\* registers no hook and no exit handler.
C22_ExceptionsLogged ==
    /\ [](last_save.kind = "Exception" =>
            last_save.outcome = "returned" /\ last_save.logged)
    /\ [][skips' # skips =>
            UNCHANGED <<registry, instances, sys_exit, atexit_handlers, hpc>>]_vars

\* C22: a register_metrics call was skipped, another one registered the
\* exit handler, and the handler logged a failed insert and returned
C22_Witness ==
    /\ skips >= 1
    /\ handlers_run >= 1
    /\ last_save.step = "insert_one"
    /\ last_save.kind = "Exception"
    /\ last_save.outcome = "returned"
    /\ last_save.logged

(***************************************************************************)
(* evergreen/api.py: one call of RetryingEvergreenApi._call_api            *)
(* (SpecRetry).  The loop that the retry decorator of lines 1533-1540 puts *)
(* around the method is the one of the tenacity library, with the stop,    *)
(* retry and reraise arguments the decorator is given.                     *)
(***************************************************************************)
\* api.py line 64
MAX_RETRIES == 3

\* the HTTP methods the callers of _call_api use
Methods == {"GET", "POST", "PATCH"}

\* the exceptions EvergreenApi._call_api raises: HTTPError by
\* _raise_for_status (lines 237-259), the others by session.request (line 191)
ApiExceptions == {"HTTPError", "ConnectionError", "ReadTimeout", "TooManyRedirects"}

\* what one attempt does: a response that passes _raise_for_status, or an exception
AttemptOutcomes == {"response"} \cup ApiExceptions

\* a retry predicate that retries after every exception
RetryOn_Any(exc) == exc \in ApiExceptions

\* api.py lines 1534-1539, retry_if_exception_type((HTTPError, ConnectionError))
RetryOn(exc) == exc \in {"HTTPError", "ConnectionError"}

\* api.py line 1540, stop_after_attempt(MAX_RETRIES)
Stop(n) == n >= MAX_RETRIES

\* the state when RetryingEvergreenApi._call_api is entered
RetryInit ==
    /\ yaml = CHOOSE d \in Documents : TRUE
    /\ config = DefaultConfig
    /\ invocation = 1
    /\ returned = <<>>
    /\ FreshLocals
    /\ LintIdle
    /\ CallIdle
    /\ LoadIdle
    /\ HooksIdle
    /\ WindowIdle
    /\ api_method \in Methods
    /\ apc = "attempt"
    /\ attempt_number = 1
    /\ outcomes = <<>>
    /\ sleeps = 0
    /\ api_result = NoResult

\* api.py line 1557: one run of EvergreenApi._call_api (lines 166-206) with
\* the arguments of the call
Attempt(outcome) ==
    /\ apc = "attempt"
    /\ outcomes' = Append(outcomes, [method |-> api_method, outcome |-> outcome])
    /\ apc' = "decide"
    /\ UNCHANGED <<nonRetryVars, api_method, attempt_number, sleeps, api_result>>

\* the attempt returned: the call returns its response
ReturnResponse ==
    /\ apc = "decide"
    /\ outcomes[Len(outcomes)].outcome = "response"
    /\ api_result' = [kind |-> "response", value |-> "response"]
    /\ apc' = "done"
    /\ UNCHANGED <<nonRetryVars, api_method, attempt_number, outcomes, sleeps>>

\* the attempt raised an exception the retry predicate rejects: it leaves the call
Propagate ==
    /\ apc = "decide"
    /\ outcomes[Len(outcomes)].outcome \in ApiExceptions
    /\ ~RetryOn(outcomes[Len(outcomes)].outcome)
    /\ api_result' = [kind |-> "raised", value |-> outcomes[Len(outcomes)].outcome]
    /\ apc' = "done"
    /\ UNCHANGED <<nonRetryVars, api_method, attempt_number, outcomes, sleeps>>

\* the attempt raised an exception to retry after and the stop condition
\* holds: reraise=True raises the exception of the last attempt
Reraise ==
    /\ apc = "decide"
    /\ outcomes[Len(outcomes)].outcome \in ApiExceptions
    /\ RetryOn(outcomes[Len(outcomes)].outcome)
    /\ Stop(attempt_number)
    /\ api_result' = [kind |-> "raised", value |-> outcomes[Len(outcomes)].outcome]
    /\ apc' = "done"
    /\ UNCHANGED <<nonRetryVars, api_method, attempt_number, outcomes, sleeps>>

\* the attempt raised an exception to retry after and the stop condition
\* does not hold: wait (wait_exponential) and make the next attempt
Sleep ==
    /\ apc = "decide"
    /\ outcomes[Len(outcomes)].outcome \in ApiExceptions
    /\ RetryOn(outcomes[Len(outcomes)].outcome)
    /\ ~Stop(attempt_number)
    /\ sleeps' = sleeps + 1
    /\ attempt_number' = attempt_number + 1
    /\ apc' = "attempt"
    /\ UNCHANGED <<nonRetryVars, api_method, outcomes, api_result>>

NextRetry ==
    \/ \E outcome \in AttemptOutcomes : Attempt(outcome)
    \/ ReturnResponse
    \/ Propagate
    \/ Reraise
    \/ Sleep

SpecRetry == RetryInit /\ [][NextRetry]_vars

\* the outcome of the last attempt made
LastOutcome == outcomes[Len(outcomes)].outcome

\* C23: one call of RetryingEvergreenApi._call_api makes at most MAX_RETRIES
\* attempts, each with the arguments of the call; every attempt but the
\* last raised HTTPError or ConnectionError; the call returns the response
\* of the first attempt that succeeds, raises the exception of the third
\* attempt when that is again an HTTPError or ConnectionError, and raises
\* any other exception at the attempt that met it.
C23_AtMostThreeAttempts ==
    /\ Len(outcomes) <= MAX_RETRIES
    /\ \A i \in 1..Len(outcomes) : outcomes[i].method = api_method
    /\ \A i \in 1..(Len(outcomes) - 1) :
        outcomes[i].outcome \in {"HTTPError", "ConnectionError"}
    /\ apc = "done" =>
        /\ LastOutcome = "response" =>
            api_result = [kind |-> "response", value |-> "response"]
        /\ LastOutcome \in {"HTTPError", "ConnectionError"} =>
            /\ Len(outcomes) = MAX_RETRIES
            /\ api_result = [kind |-> "raised", value |-> LastOutcome]
        /\ LastOutcome \notin {"response", "HTTPError", "ConnectionError"} =>
            api_result = [kind |-> "raised", value |-> LastOutcome]

\* C23: the first two attempts raised HTTPError, the third ConnectionError,
\* and the call raised the ConnectionError
C23_Witness ==
    /\ apc = "done"
    /\ Len(outcomes) = 3
    /\ outcomes[1].outcome = "HTTPError"
    /\ outcomes[2].outcome = "HTTPError"
    /\ outcomes[3].outcome = "ConnectionError"
    /\ sleeps = 2
    /\ api_result = [kind |-> "raised", value |-> "ConnectionError"]

(***************************************************************************)
(* evergreen/util.py: one call of iterate_by_time_window, consumed to its  *)
(* end (SpecWindow).  Timestamps are small integers; a larger one is later.*)
(***************************************************************************)
\* the most items the iterator has
MaxWindow == 3

\* the latest timestamp
MaxTime == 2

\* the timestamps
Times == 0..MaxTime

\* the iterators handed to the function, as the time attribute of each item
Iterators == UNION {[1..n -> Times] : n \in 0..MaxWindow}

\* the state when the generator is first advanced
WindowInit ==
    /\ yaml = CHOOSE d \in Documents : TRUE
    /\ config = DefaultConfig
    /\ invocation = 1
    /\ returned = <<>>
    /\ FreshLocals
    /\ LintIdle
    /\ CallIdle
    /\ LoadIdle
    /\ HooksIdle
    /\ RetryIdle
    /\ witems \in Iterators
    /\ before \in Times
    /\ after \in Times
    /\ wpos = 1
    /\ yielded = <<>>
    /\ wpc = "loop"

\* util.py line 106
item_time == witems[wpos]

\* util.py lines 107-108, an item later than "before": continue
NextItem_Skip ==
    /\ wpc = "loop"
    /\ wpos <= Len(witems)
    /\ item_time > before
    /\ wpos' = wpos + 1
    /\ UNCHANGED <<nonWindowVars, witems, before, after, yielded, wpc>>

\* util.py lines 110-111 with "continue" in the place of "break"
NextItem_Break_Continues ==
    /\ wpc = "loop"
    /\ wpos <= Len(witems)
    /\ ~(item_time > before)
    /\ item_time < after
    /\ wpos' = wpos + 1
    /\ UNCHANGED <<nonWindowVars, witems, before, after, yielded, wpc>>

\* util.py lines 110-111, an item earlier than "after": break
NextItem_Break ==
    /\ wpc = "loop"
    /\ wpos <= Len(witems)
    /\ ~(item_time > before)
    /\ item_time < after
    /\ wpc' = "done"
    /\ UNCHANGED <<nonWindowVars, witems, before, after, wpos, yielded>>

\* util.py line 113
NextItem_Yield ==
    /\ wpc = "loop"
    /\ wpos <= Len(witems)
    /\ ~(item_time > before)
    /\ ~(item_time < after)
    /\ yielded' = Append(yielded, wpos)
    /\ wpos' = wpos + 1
    /\ UNCHANGED <<nonWindowVars, witems, before, after, wpc>>

\* util.py line 105, the iterator is exhausted
Exhausted ==
    /\ wpc = "loop"
    /\ wpos > Len(witems)
    /\ wpc' = "done"
    /\ UNCHANGED <<nonWindowVars, witems, before, after, wpos, yielded>>

NextWindow ==
    \/ NextItem_Skip
    \/ NextItem_Break
    \/ NextItem_Yield
    \/ Exhausted

SpecWindow == WindowInit /\ [][NextWindow]_vars

\* the item at position i is within the time window
InWindow(i) == after <= witems[i] /\ witems[i] <= before

\* the positions from i to n of the items within the window, in increasing order
RECURSIVE WindowPositions(_, _)
WindowPositions(i, n) ==
    IF i > n THEN <<>>
    ELSE (IF InWindow(i) THEN <<i>> ELSE <<>>) \o WindowPositions(i + 1, n)

\* the position of the first item earlier than "after", or one past the end
FirstOlder ==
    IF \E i \in 1..Len(witems) : witems[i] < after
    THEN CHOOSE i \in 1..Len(witems) :
            /\ witems[i] < after
            /\ \A j \in 1..(i - 1) : ~(witems[j] < after)
    ELSE Len(witems) + 1

====
